---- MODULE Spec2Model ----
(***************************************************************************)
(* A model of the argument-binding engine of thermite: the tokenizer       *)
(* (preprocessing.py), the trigger processors (parameters/processors.py),  *)
(* the parameter leaves (parameters/base.py), the parameter group          *)
(* (parameters/group.py) and the command loop (command.py).                *)
(*                                                                         *)
(* A CLI token is a sequence of one-character strings, so that             *)
(* str.startswith, slicing and f-string concatenation are computed and     *)
(* not assumed.                                                            *)
(***************************************************************************)
EXTENDS Integers, Sequences, FiniteSets, TLC

VARIABLES
    \* ---- tokenizer (preprocessing.py) ----
    tokArgs,      \* the argument vector handed to split_and_expand
    tokPc,        \* "input" before the call, "done" after it
    tokGroups,    \* the deque returned by split_and_expand
    \* ---- one trigger processor (parameters/processors.py) ----
    proc,         \* the processor: its class, triggers, converter, ...
    bound_args,   \* the processor's bound_args field
    procArgs,     \* the argument of the last bind call
    procOut,      \* what the last bind call returned or raised
    procCalls,    \* number of bind calls made
    \* ---- the parameter tree of one Command (parameters/group.py) ----
    leaves,       \* leaf name -> [value, exceptions]: the bound value slot
                  \* (Ellipsis when nothing is bound) and the deferred errors
    pbound,       \* leaf name -> the bound_args field of each of its processors
    num_bound,    \* group name -> its _num_bound counter
    lastCall,     \* the last call made on the tree: [op, target, args, out]
    calls,        \* number of process calls made on the tree
    \* ---- Command.process (command.py) ----
    argv,         \* the argument vector handed to Command.process
    input_args_deque,  \* the deque of pending token groups
    cmdPc,        \* "start", "loop", "returned", "raised"
    cmdOut,       \* what Command.process returned or raised
    lastStep,     \* the last loop iteration: [input_args, args_return, pending]
    \* ---- the leaves of parameters/base.py, bound and read one by one ----
    bleaves,      \* leaf name -> [value, bound_args_list]: BoolOption._value
                  \* and the BoundArgs a KnownLenOpt / KnownLenArg holds
    blast,        \* the last call on a leaf: [op, target, out, reads]
    bcalls,       \* number of bind calls made
    \* ---- the prefixes of a ParameterGroup tree (parameters/group.py) ----
    prefix_parent,  \* group name -> its _prefix_parent field
    prefix_this,    \* group name -> its _prefix_this field
    opt_prefix,     \* Option name -> its _prefix field
    pfxLast,        \* the last assignment made: [op, target, val]
    \* ---- run and process_all_args (command.py, run.py) ----
    top,          \* the object run is called on
    driver,       \* the file whose process_all_args is run
    cmd,          \* the current Command ("" before the first is made)
    all_args,     \* input_args of process_all_args: the tokens still to bind
    prev_cmd,     \* Command -> its prev_cmd field ("" for None)
    created,      \* the Commands made so far, in the order they were made
    executed,     \* the wrapped callables invoked so far, in call order
    runPc,        \* "idle", "start", "loop", "done", "raised"
    runOut,       \* what process_all_args returned or raised
    leftover,     \* what the last Command.process of the loop returned
    \* ---- one CLIArgConverterStore (type_converters.py) ----
    _converters_with_priority,  \* the store's list of [converter, priority]
    store_pc,        \* "idle", "open", "built", "raised", "converted"
    requested_type,  \* the argument of the get_converter call
    got_converter,   \* what get_converter returned or raised
    convert_args,    \* the argument of the convert call
    convert_out,     \* what convert returned or raised
    num_added,       \* number of add_converter calls made on the store
    \* ---- ApplyDefaultsCommandCallback (plugins/default_defs.py) ----
    default_defs,    \* the DefaultDefs of the callback: [opts, args]
    pudb_installed,  \* whether the module pudb can be imported
    default_values,  \* leaf name -> the default_value field of the Command's leaf
    cmd_cpy,         \* the binding state of the deep copy after the trial binding
    def_pc,          \* "idle", "created", "returned", "raised"
    def_out          \* what the callback returned or raised

tokVars == <<tokArgs, tokPc, tokGroups>>

procVars == <<proc, bound_args, procArgs, procOut, procCalls>>

treeVars == <<leaves, pbound, num_bound, lastCall, calls>>

cmdVars == <<argv, input_args_deque, cmdPc, cmdOut, lastStep>>

baseVars == <<bleaves, blast, bcalls>>

pfxVars == <<prefix_parent, prefix_this, opt_prefix, pfxLast>>

runVars == <<top, driver, cmd, all_args, prev_cmd, created, executed, runPc, runOut, leftover>>

storeVars == <<_converters_with_priority, store_pc, requested_type, got_converter,
               convert_args, convert_out, num_added>>

defVars == <<default_defs, pudb_installed, default_values, cmd_cpy, def_pc, def_out>>

vars == <<tokVars, procVars, treeVars, cmdVars, baseVars, pfxVars, runVars, storeVars,
          defVars>>

(***************************************************************************)
(* Strings as character sequences                                          *)
(***************************************************************************)

\* str.startswith("-")
StartsWithDash(x) == Len(x) >= 1 /\ x[1] = "-"

\* str.startswith("--")
StartsWithDashDash(x) == Len(x) >= 2 /\ x[1] = "-" /\ x[2] = "-"

\* itertools.chain(*lists)
RECURSIVE chain(_)
chain(lists) ==
    IF lists = <<>> THEN <<>> ELSE Head(lists) \o chain(Tail(lists))

(***************************************************************************)
(* preprocessing.py                                                        *)
(***************************************************************************)

\* A plausible slip: the test for a double dash is left out.
expand_dash_arg_nodd(x) ==
    IF StartsWithDash(x)
    THEN [i \in 1..(Len(x) - 1) |-> <<"-", x[i + 1]>>]
    ELSE <<x>>

\* A plausible slip: the slice starts one character late (x[2:]).
expand_dash_arg_late(x) ==
    IF StartsWithDash(x) /\ ~StartsWithDashDash(x)
    THEN [i \in 1..(Len(x) - 2) |-> <<"-", x[i + 2]>>]
    ELSE <<x>>

expand_dash_arg(x) ==
    IF StartsWithDash(x) /\ ~StartsWithDashDash(x)
    THEN [i \in 1..(Len(x) - 1) |-> <<"-", x[i + 1]>>]
    ELSE <<x>>

\* more_itertools.split_before(iterable, pred) with pred = startswith("-"):
\* the buffer is yielded before every item satisfying pred, when it is not
\* empty, and once more at the end, when it is not empty.
RECURSIVE split_before_loop(_, _, _)
split_before_loop(rest, buf, out) ==
    IF rest = <<>>
    THEN IF buf # <<>> THEN Append(out, buf) ELSE out
    ELSE IF StartsWithDash(Head(rest)) /\ buf # <<>>
         THEN split_before_loop(Tail(rest), <<Head(rest)>>, Append(out, buf))
         ELSE split_before_loop(Tail(rest), Append(buf, Head(rest)), out)

split_before(iterable) == split_before_loop(iterable, <<>>, <<>>)

\* A plausible slip: the split is made AFTER every dash token.
RECURSIVE split_after_loop(_, _, _)
split_after_loop(rest, buf, out) ==
    IF rest = <<>>
    THEN IF buf # <<>> THEN Append(out, buf) ELSE out
    ELSE IF StartsWithDash(Head(rest))
         THEN split_after_loop(Tail(rest), <<>>,
                               Append(out, Append(buf, Head(rest))))
         ELSE split_after_loop(Tail(rest), Append(buf, Head(rest)), out)

split_and_expand_after(args) ==
    split_after_loop(chain([i \in 1..Len(args) |-> expand_dash_arg(args[i])]),
                     <<>>, <<>>)

split_and_expand(args) ==
    split_before(chain([i \in 1..Len(args) |-> expand_dash_arg(args[i])]))

(***************************************************************************)
(* Python values and call outcomes                                         *)
(*                                                                         *)
(* Every value is a record of one shape, so that two values of different   *)
(* Python types can be compared: kind names the type, atom is the value    *)
(* of a scalar, items are the elements of a list or tuple.                 *)
(***************************************************************************)

Ellipsis == [kind |-> "ellipsis", atom |-> "", items |-> <<>>]

None == [kind |-> "none", atom |-> "", items |-> <<>>]

PyBool(b) == [kind |-> "bool", atom |-> IF b THEN "True" ELSE "False", items |-> <<>>]

PyList(xs) == [kind |-> "list", atom |-> "", items |-> xs]

PyTuple(xs) == [kind |-> "tuple", atom |-> "", items |-> xs]

\* The object a class or a function made of its arguments.
Object(class, xs) == [kind |-> "object", atom |-> class, items |-> xs]

\* A call that returned: ret is the returned token list (bind, process of a
\* parameter) and val the returned value (convert, process of a processor,
\* value).
Return(tokens) == [tag |-> "return", exc |-> "", ret |-> tokens, val |-> Ellipsis]

ReturnVal(v) == [tag |-> "return", exc |-> "", ret |-> <<>>, val |-> v]

Raise(e) == [tag |-> "raise", exc |-> e, ret |-> <<>>, val |-> Ellipsis]

NoCall == [tag |-> "none", exc |-> "", ret |-> <<>>, val |-> Ellipsis]

Min(a, b) == IF a < b THEN a ELSE b

\* x[0:n] and x[n:] for n >= 0
SliceTo(x, n) == SubSeq(x, 1, Min(n, Len(x)))

SliceFrom(x, n) == SubSeq(x, Min(n, Len(x)) + 1, Len(x))

(***************************************************************************)
(* utils.py                                                                *)
(***************************************************************************)

\* A plausible slip: the remainder starts one token late (x[nargs + 1:]).
split_args_by_nargs_skip(x, nargs) ==
    IF nargs = -1
    THEN <<x, <<>>>>
    ELSE <<SliceTo(x, nargs), SliceFrom(x, nargs + 1)>>

split_args_by_nargs(x, nargs) ==
    IF nargs = -1
    THEN <<x, <<>>>>
    ELSE <<SliceTo(x, nargs), SliceFrom(x, nargs)>>

(***************************************************************************)
(* type_converters.py                                                      *)
(*                                                                         *)
(* Three converters: "bool" (BoolCLIArgConverter), "tuple" (a              *)
(* TupleCLIArgConverter of two bools) and "list" (a ListCLIArgConverter    *)
(* of bools).                                                              *)
(***************************************************************************)

\* num_required_args: NumReqArgs(min, max)
num_required_args(conv) ==
    CASE conv = "bool" -> [min |-> 1, max |-> 1]
      [] conv = "tuple" -> [min |-> 2, max |-> 2]
      [] conv = "list" -> [min |-> 1, max |-> -1]

\* The number of tokens a converter takes from a group: all of them (-1)
\* for a variadic converter, its fixed arity otherwise.
num_req_args(conv) ==
    IF num_required_args(conv).max = -1 THEN -1 ELSE num_required_args(conv).max

\* BoolCLIArgConverter.convert; "t" and "f" are the accepted spellings.
BoolCLIArgConverter_convert(args) ==
    IF Len(args) > 1 THEN Raise("TooManyArgsError")
    ELSE IF Len(args) = 0 THEN Raise("TooFewArgsError")
    ELSE IF args[1] = <<"t">> THEN ReturnVal(PyBool(TRUE))
    ELSE IF args[1] = <<"f">> THEN ReturnVal(PyBool(FALSE))
    ELSE Raise("ValueError")

\* The elements of a compound converter, converted left to right; the first
\* failure is the failure of the whole.
RECURSIVE convert_each(_, _)
convert_each(args, acc) ==
    IF args = <<>> THEN ReturnVal(PyList(acc))
    ELSE LET one == BoolCLIArgConverter_convert(<<Head(args)>>)
         IN  IF one.tag = "raise" THEN one
             ELSE convert_each(Tail(args), Append(acc, one.val))

\* A plausible slip: the lower arity check is missing.
TupleCLIArgConverter_convert_no_min(args) ==
    IF Len(args) > num_required_args("tuple").max THEN Raise("TooManyArgsError")
    ELSE LET each == convert_each(args, <<>>)
         IN  IF each.tag = "raise" THEN each ELSE ReturnVal(PyTuple(each.val.items))

TupleCLIArgConverter_convert(args) ==
    IF Len(args) > num_required_args("tuple").max THEN Raise("TooManyArgsError")
    ELSE IF Len(args) < num_required_args("tuple").min THEN Raise("TooFewArgsError")
    ELSE LET each == convert_each(args, <<>>)
         IN  IF each.tag = "raise" THEN each ELSE ReturnVal(PyTuple(each.val.items))

\* With an inner converter of one token, len(args) // 1 * 1 = len(args): the
\* list converter never sees too many tokens.
ListCLIArgConverter_convert(args) == convert_each(args, <<>>)

convert(conv, args) ==
    CASE conv = "bool" -> BoolCLIArgConverter_convert(args)
      [] conv = "tuple" -> TupleCLIArgConverter_convert(args)
      [] conv = "list" -> ListCLIArgConverter_convert(args)

(***************************************************************************)
(* type_converters.py: the converter classes and CLIArgConverterStore      *)
(*                                                                         *)
(* A type is its origin and its type arguments; a converter is its class,  *)
(* its target type and the converters it holds (the members of a Union in  *)
(* the order they are tried, the inner converter of a List, the element    *)
(* converters of a Tuple).                                                 *)
(***************************************************************************)

Type(origin, args) == [origin |-> origin, args |-> args]

NoType == Type("", <<>>)

t_int == Type("int", <<>>)

t_str == Type("str", <<>>)

t_bool == Type("bool", <<>>)

t_float == Type("float", <<>>)

t_Path == Type("Path", <<>>)

\* complex: a type no built-in converter class supports
t_complex == Type("complex", <<>>)

\* enum_test = Enum("test", ["a", "b", "2"])
enum_test == Type("test", <<>>)

\* Literal["a", "b"]
t_Literal == Type("Literal", <<>>)

Union(args) == Type("Union", args)

List(args) == Type("List", args)

Tuple(args) == Type("Tuple", args)

\* issubclass(target_type, Enum) holds; for a target type that is no class
\* issubclass itself raises TypeError
IsEnum(t) == t = enum_test

\* e.name for e in enum_test
enum_names(t) == {<<"a">>, <<"b">>, <<"2">>}

\* str(arg) for arg in get_args(Literal["a", "b"])
literal_args(t) == {<<"a">>, <<"b">>}

Converter(class, target_type, converters) ==
    [class |-> class, target_type |-> target_type, converters |-> converters]

NoConverter == Converter("", NoType, <<>>)

\* What a constructor call or a lookup of the store ends with: a converter
\* and the priority of its class, or an exception.
Built(c, priority) == [tag |-> "return", exc |-> "", converter |-> c, priority |-> priority]

NotBuilt(e) == [tag |-> "raise", exc |-> e, converter |-> NoConverter, priority |-> 0]

NoLookup == [tag |-> "none", exc |-> "", converter |-> NoConverter, priority |-> 0]

BasicClasses == {"StrCLIArgConverter", "PathCLIArgConverter", "FloatCLIArgConverter", "IntCLIArgConverter"}

\* _supported_type of the four basic converter classes
_supported_type(class) ==
    CASE class = "StrCLIArgConverter" -> t_str
      [] class = "PathCLIArgConverter" -> t_Path
      [] class = "FloatCLIArgConverter" -> t_float
      [] class = "IntCLIArgConverter" -> t_int

RECURSIVE Converter_num_required_args(_)
Converter_num_required_args(c) ==
    CASE c.class = "UnionCLIArgConverter" ->
            Converter_num_required_args(c.converters[1])
      [] c.class = "ListCLIArgConverter" ->
            [min |-> Converter_num_required_args(c.converters[1]).min, max |-> -1]
      [] c.class = "TupleCLIArgConverter" ->
            LET RECURSIVE sum(_)
                sum(xs) == IF xs = <<>> THEN 0
                           ELSE Converter_num_required_args(Head(xs)).min + sum(Tail(xs))
            IN  [min |-> sum(c.converters), max |-> sum(c.converters)]
      [] OTHER -> [min |-> 1, max |-> 1]

\* A plausible slip: the list is sorted by ascending priority.
RECURSIVE sort_ascending(_)
sort_ascending(xs) ==
    IF xs = <<>> THEN <<>>
    ELSE LET sorted == sort_ascending(SubSeq(xs, 1, Len(xs) - 1))
             x == xs[Len(xs)]
             before == {i \in 1..Len(sorted) : sorted[i].priority <= x.priority}
             k == Cardinality(before)
         IN  SubSeq(sorted, 1, k) \o <<x>> \o SubSeq(sorted, k + 1, Len(sorted))

\* list.sort(key=lambda x: x[1], reverse=True): a stable sort, elements of
\* equal priority keep the order they had.
RECURSIVE sort_reverse(_)
sort_reverse(xs) ==
    IF xs = <<>> THEN <<>>
    ELSE LET sorted == sort_reverse(SubSeq(xs, 1, Len(xs) - 1))
             x == xs[Len(xs)]
             before == {i \in 1..Len(sorted) : sorted[i].priority >= x.priority}
             k == Cardinality(before)
         IN  SubSeq(sorted, 1, k) \o <<x>> \o SubSeq(sorted, k + 1, Len(sorted))

\* CLIArgConverterStore.add_converter
add_converter(store, converter, priority) ==
    sort_reverse(Append(store, [converter |-> converter, priority |-> priority]))

\* CLIArgConverterStore.add_default_converters
add_default_converters(store) ==
    LET s1 == add_converter(store, "StrCLIArgConverter", 1)
        s2 == add_converter(s1, "PathCLIArgConverter", 2)
        s3 == add_converter(s2, "BoolCLIArgConverter", 3)
        s4 == add_converter(s3, "FloatCLIArgConverter", 4)
        s5 == add_converter(s4, "IntCLIArgConverter", 5)
        s6 == add_converter(s5, "EnumCLIArgConverter", 6)
        s7 == add_converter(s6, "LiteralCLIArgConverter", 7)
        s8 == add_converter(s7, "UnionCLIArgConverter", 8)
        s9 == add_converter(s8, "ListCLIArgConverter", 9)
    IN  add_converter(s9, "TupleCLIArgConverter", 10)

\* CLIArgConverterStore.__init__
CLIArgConverterStore_init(add_defaults) ==
    IF add_defaults THEN add_default_converters(<<>>) ELSE <<>>

\* The first element of a list of constructor outcomes that raised, if any
FirstRaise(rs) ==
    IF \E i \in 1..Len(rs) : rs[i].tag = "raise"
    THEN rs[CHOOSE i \in 1..Len(rs) :
                /\ rs[i].tag = "raise"
                /\ \A j \in 1..(i - 1) : rs[j].tag # "raise"]
    ELSE NoLookup

RECURSIVE _get_converter_priority_loop(_, _, _)
RECURSIVE construct(_, _, _)

\* CLIArgConverterStore._get_converter_priority
_get_converter_priority(store, target_type) ==
    _get_converter_priority_loop(store, target_type, 1)

\* CLIArgConverterStore.get_sorted_converters: the lookups are made in the
\* order of the types, the first that raises ends the call
get_sorted_converters(store, target_types) ==
    LET converters_list == [i \in 1..Len(target_types) |->
                                _get_converter_priority(store, target_types[i])]
    IN  IF FirstRaise(converters_list).tag = "raise"
        THEN FirstRaise(converters_list)
        ELSE Built(Converter("", NoType,
                             [i \in 1..Len(target_types) |->
                                 sort_reverse(converters_list)[i].converter]), 0)

\* UnionCLIArgConverter.from_store and __attrs_post_init__
UnionCLIArgConverter_from_store(target_type, store) ==
    IF target_type.origin # "Union" THEN NotBuilt("TypeError")
    ELSE LET sorted == get_sorted_converters(store, target_type.args)
             converters == sorted.converter.converters
         IN  IF sorted.tag = "raise" THEN sorted
             ELSE IF \E i \in 1..Len(converters) :
                         Converter_num_required_args(converters[i])
                             # Converter_num_required_args(converters[1])
                  THEN NotBuilt("UnequalNumberArgsError")
                  ELSE Built(Converter("UnionCLIArgConverter", target_type, converters), 0)

\* A plausible slip: the arity of the inner converter is not looked at.
ListCLIArgConverter_from_store_any_inner(target_type, store) ==
    IF target_type.origin # "List" THEN NotBuilt("TypeError")
    ELSE IF Len(target_type.args) = 0 THEN NotBuilt("UnboundLocalError")
    ELSE IF Len(target_type.args) = 1
    THEN LET inner == _get_converter_priority(store, target_type.args[1])
         IN  IF inner.tag = "raise" THEN inner
             ELSE Built(Converter("ListCLIArgConverter", target_type,
                                  <<inner.converter>>), 0)
    ELSE NotBuilt("TypeError")

\* ListCLIArgConverter.from_store; with no type argument the local
\* inner_converter is read before it was assigned
ListCLIArgConverter_from_store(target_type, store) ==
    IF target_type.origin # "List" THEN NotBuilt("TypeError")
    ELSE IF Len(target_type.args) = 0 THEN NotBuilt("UnboundLocalError")
    ELSE IF Len(target_type.args) = 1
    THEN LET inner == _get_converter_priority(store, target_type.args[1])
             inner_num_args == Converter_num_required_args(inner.converter)
         IN  IF inner.tag = "raise" THEN inner
             ELSE IF inner_num_args.min # inner_num_args.max
                  THEN NotBuilt("TypeError")
                  ELSE Built(Converter("ListCLIArgConverter", target_type,
                                       <<inner.converter>>), 0)
    ELSE NotBuilt("TypeError")

\* TupleCLIArgConverter.from_store
TupleCLIArgConverter_from_store(target_type, store) ==
    IF target_type.origin # "Tuple" THEN NotBuilt("TypeError")
    ELSE LET got == [i \in 1..Len(target_type.args) |->
                        _get_converter_priority(store, target_type.args[i])]
             tuple_converters == [i \in 1..Len(got) |-> got[i].converter]
         IN  IF FirstRaise(got).tag = "raise" THEN FirstRaise(got)
             ELSE IF \E i \in 1..Len(got) :
                         \/ Converter_num_required_args(tuple_converters[i]).max = -1
                         \/ Converter_num_required_args(tuple_converters[i]).min
                                # Converter_num_required_args(tuple_converters[i]).max
                  THEN NotBuilt("CLIArgConverterError")
                  ELSE Built(Converter("TupleCLIArgConverter", target_type,
                                       tuple_converters), 0)

\* converter_class.from_store(target_type, store=self) for a compound
\* class, converter_class(target_type) and its __attrs_post_init__ for a
\* simple one
construct(converter_class, target_type, store) ==
    CASE converter_class \in BasicClasses ->
            IF target_type # _supported_type(converter_class)
            THEN NotBuilt("TypeError")
            ELSE Built(Converter(converter_class, target_type, <<>>), 0)
      [] converter_class = "LiteralCLIArgConverter" ->
            IF target_type.origin # "Literal" THEN NotBuilt("TypeError")
            ELSE Built(Converter(converter_class, target_type, <<>>), 0)
      [] converter_class = "EnumCLIArgConverter" ->
            IF ~IsEnum(target_type) THEN NotBuilt("TypeError")
            ELSE Built(Converter(converter_class, target_type, <<>>), 0)
      [] converter_class = "BoolCLIArgConverter" ->
            IF target_type # t_bool THEN NotBuilt("TypeError")
            ELSE Built(Converter(converter_class, target_type, <<>>), 0)
      [] converter_class = "UnionCLIArgConverter" ->
            UnionCLIArgConverter_from_store(target_type, store)
      [] converter_class = "ListCLIArgConverter" ->
            ListCLIArgConverter_from_store(target_type, store)
      [] converter_class = "TupleCLIArgConverter" ->
            TupleCLIArgConverter_from_store(target_type, store)

\* A plausible slip: the loop goes on after a constructor accepted the type,
\* the last one that accepts wins.
RECURSIVE _get_converter_priority_last(_, _, _)
_get_converter_priority_last(store, target_type, i) ==
    IF i > Len(store) THEN NotBuilt("TypeError")
    ELSE LET made == construct(store[i].converter, target_type, store)
             later == _get_converter_priority_last(store, target_type, i + 1)
         IN  IF made.tag = "raise" /\ made.exc = "TypeError" THEN later
             ELSE IF made.tag = "raise" THEN made
             ELSE IF later.tag = "return" THEN later
             ELSE Built(made.converter, store[i].priority)

\* for converter_class, priority in self._converters_with_priority: from
\* entry i on; only a TypeError makes the loop try the next class, and a
\* TypeError is what the loop ends with
_get_converter_priority_loop(store, target_type, i) ==
    IF i > Len(store) THEN NotBuilt("TypeError")
    ELSE LET made == construct(store[i].converter, target_type, store)
         IN  IF made.tag = "raise" /\ made.exc = "TypeError"
             THEN _get_converter_priority_loop(store, target_type, i + 1)
             ELSE IF made.tag = "raise" THEN made
             ELSE Built(made.converter, store[i].priority)

\* CLIArgConverterStore.get_converter
get_converter(store, target_type) == _get_converter_priority(store, target_type)

(***************************************************************************)
(* type_converters.py: convert                                             *)
(***************************************************************************)

Digits == <<"0", "1", "2", "3", "4", "5", "6", "7", "8", "9">>

IsDigit(c) == \E d \in 1..10 : Digits[d] = c

DigitValue(c) == (CHOOSE d \in 1..10 : Digits[d] = c) - 1

\* A str is the sequence of its characters.
PyChar(c) == [kind |-> "str", atom |-> c, items |-> <<>>]

PyStr(x) == [kind |-> "str", atom |-> "", items |-> [i \in 1..Len(x) |-> PyChar(x[i])]]

\* An int below ten
PyInt(n) == [kind |-> "int", atom |-> Digits[n + 1], items |-> <<>>]

\* A float below ten without a fraction
PyFloat(n) == [kind |-> "float", atom |-> Digits[n + 1], items |-> <<>>]

\* A member of an Enum
EnumMember(enum, name) == [kind |-> "enum", atom |-> enum, items |-> <<PyStr(name)>>]

\* str(*args): str() is '', str(x) is x, and a second string argument (an
\* encoding) is refused for a str object
str_call(args) ==
    IF Len(args) = 0 THEN ReturnVal(PyStr(<<>>))
    ELSE IF Len(args) = 1 THEN ReturnVal(PyStr(args[1]))
    ELSE Raise("TypeError")

\* int(*args): int() is 0, int(x) parses x, and a second argument (a base)
\* must be an integer; the tokens here have one character
int_call(args) ==
    IF Len(args) = 0 THEN ReturnVal(PyInt(0))
    ELSE IF Len(args) = 1
    THEN IF Len(args[1]) = 1 /\ IsDigit(args[1][1])
         THEN ReturnVal(PyInt(DigitValue(args[1][1])))
         ELSE Raise("ValueError")
    ELSE Raise("TypeError")

\* float(*args): float() is 0.0, float(x) parses x, float takes at most one
\* argument
float_call(args) ==
    IF Len(args) = 0 THEN ReturnVal(PyFloat(0))
    ELSE IF Len(args) = 1
    THEN IF Len(args[1]) = 1 /\ IsDigit(args[1][1])
         THEN ReturnVal(PyFloat(DigitValue(args[1][1])))
         ELSE Raise("ValueError")
    ELSE Raise("TypeError")

\* Path(*args): the segments joined, Path() is the current directory
Path_call(args) == ReturnVal(Object("Path", [i \in 1..Len(args) |-> PyStr(args[i])]))

\* BasicCLIArgConverter.convert: self._target_type(*args)
BasicCLIArgConverter_convert(class, args) ==
    CASE class = "StrCLIArgConverter" -> str_call(args)
      [] class = "PathCLIArgConverter" -> Path_call(args)
      [] class = "FloatCLIArgConverter" -> float_call(args)
      [] class = "IntCLIArgConverter" -> int_call(args)

\* LiteralCLIArgConverter.convert
LiteralCLIArgConverter_convert(c, args) ==
    IF Len(args) > 1 THEN Raise("TooManyArgsError")
    ELSE IF Len(args) = 0 THEN Raise("TooFewArgsError")
    ELSE IF args[1] \in literal_args(c.target_type) THEN ReturnVal(PyStr(args[1]))
    ELSE Raise("ValueError")

\* EnumCLIArgConverter.convert
EnumCLIArgConverter_convert(c, args) ==
    IF Len(args) > 1 THEN Raise("TooManyArgsError")
    ELSE IF Len(args) = 0 THEN Raise("TooFewArgsError")
    ELSE IF args[1] \in enum_names(c.target_type)
         THEN ReturnVal(EnumMember(c.target_type.origin, args[1]))
    ELSE Raise("ValueError")

\* The first outcome of a list of outcomes that did not raise, if any
FirstReturn(rs) ==
    IF \E i \in 1..Len(rs) : rs[i].tag = "return"
    THEN rs[CHOOSE i \in 1..Len(rs) :
                /\ rs[i].tag = "return"
                /\ \A j \in 1..(i - 1) : rs[j].tag # "return"]
    ELSE Raise("ValueError")

\* The last outcome of a list of outcomes that did not raise, if any
LastReturn(rs) ==
    IF \E i \in 1..Len(rs) : rs[i].tag = "return"
    THEN rs[CHOOSE i \in 1..Len(rs) :
                /\ rs[i].tag = "return"
                /\ \A j \in (i + 1)..Len(rs) : rs[j].tag # "return"]
    ELSE Raise("ValueError")

\* The first outcome of a list of outcomes that raised, or the list of the
\* values returned
AllOrFirstRaise(rs) ==
    IF \E i \in 1..Len(rs) : rs[i].tag = "raise"
    THEN rs[CHOOSE i \in 1..Len(rs) :
                /\ rs[i].tag = "raise"
                /\ \A j \in 1..(i - 1) : rs[j].tag # "raise"]
    ELSE ReturnVal(PyList([i \in 1..Len(rs) |-> rs[i].val]))

\* The start of the slice of element i of a tuple: the sum of the arities
\* of the elements before it
RECURSIVE tuple_pos(_, _)
tuple_pos(converters, i) ==
    IF i = 1 THEN 0
    ELSE tuple_pos(converters, i - 1)
            + Converter_num_required_args(converters[i - 1]).min

\* x[a:b] for 0 <= a <= b
Slice(x, a, b) == SubSeq(x, Min(a, Len(x)) + 1, Min(b, Len(x)))

RECURSIVE CLIArgConverter_convert(_, _)

\* A plausible slip: the result of the last member that succeeds is kept.
UnionCLIArgConverter_convert_last(c, args) ==
    IF Len(args) > Converter_num_required_args(c).max THEN Raise("TooManyArgsError")
    ELSE IF Len(args) < Converter_num_required_args(c).min THEN Raise("TooFewArgsError")
    ELSE LastReturn([i \in 1..Len(c.converters) |->
                        CLIArgConverter_convert(c.converters[i], args)])

\* UnionCLIArgConverter.convert
UnionCLIArgConverter_convert(c, args) ==
    IF Len(args) > Converter_num_required_args(c).max THEN Raise("TooManyArgsError")
    ELSE IF Len(args) < Converter_num_required_args(c).min THEN Raise("TooFewArgsError")
    ELSE FirstReturn([i \in 1..Len(c.converters) |->
                         CLIArgConverter_convert(c.converters[i], args)])

\* ListCLIArgConverter.convert of a built converter
ListCLIArgConverter_convert_groups(c, args) ==
    LET req_group_args == Converter_num_required_args(c.converters[1]).min
    IN  IF req_group_args = 0 THEN Raise("ZeroDivisionError")
        ELSE LET num_groups == Len(args) \div req_group_args
                 num_args == num_groups * req_group_args
             IN  IF Len(args) > num_args THEN Raise("TooManyArgsError")
                 ELSE AllOrFirstRaise(
                        [g \in 1..num_groups |->
                            CLIArgConverter_convert(
                                c.converters[1],
                                Slice(args, (g - 1) * req_group_args,
                                      g * req_group_args))])

\* TupleCLIArgConverter.convert of a built converter
TupleCLIArgConverter_convert_elements(c, args) ==
    IF Len(args) > Converter_num_required_args(c).max THEN Raise("TooManyArgsError")
    ELSE IF Len(args) < Converter_num_required_args(c).min THEN Raise("TooFewArgsError")
    ELSE LET each == AllOrFirstRaise(
                        [i \in 1..Len(c.converters) |->
                            CLIArgConverter_convert(
                                c.converters[i],
                                Slice(args, tuple_pos(c.converters, i),
                                      tuple_pos(c.converters, i)
                                        + Converter_num_required_args(c.converters[i]).min))])
         IN  IF each.tag = "raise" THEN each ELSE ReturnVal(PyTuple(each.val.items))

\* converter.convert(args)
CLIArgConverter_convert(c, args) ==
    CASE c.class \in BasicClasses -> BasicCLIArgConverter_convert(c.class, args)
      [] c.class = "LiteralCLIArgConverter" -> LiteralCLIArgConverter_convert(c, args)
      [] c.class = "EnumCLIArgConverter" -> EnumCLIArgConverter_convert(c, args)
      [] c.class = "BoolCLIArgConverter" -> BoolCLIArgConverter_convert(args)
      [] c.class = "UnionCLIArgConverter" -> UnionCLIArgConverter_convert(c, args)
      [] c.class = "ListCLIArgConverter" -> ListCLIArgConverter_convert_groups(c, args)
      [] c.class = "TupleCLIArgConverter" -> TupleCLIArgConverter_convert_elements(c, args)

(***************************************************************************)
(* parameters/processors.py                                                *)
(*                                                                         *)
(* A processor is a record: class ("Constant", "Convert", "MultiConvert"), *)
(* triggers (a list), constant, type_converter, allow_replace.  bind       *)
(* returns the outcome and the new bound_args field.                       *)
(***************************************************************************)

InList(x, list) == \E i \in 1..Len(list) : list[i] = x

ConstantTriggerProcessor_bind(p, bound, args) ==
    IF Len(args) = 0 THEN [out |-> Raise("TriggerError"), bound_args |-> bound]
    ELSE IF ~InList(args[1], p.triggers)
    THEN [out |-> Raise("TriggerError"), bound_args |-> bound]
    ELSE [out |-> Return(Tail(args)), bound_args |-> bound]

ConvertTriggerProcessor_bind(p, bound, args) ==
    IF Len(args) = 0 THEN [out |-> Raise("TriggerError"), bound_args |-> bound]
    ELSE IF ~InList(args[1], p.triggers)
    THEN [out |-> Raise("TriggerError"), bound_args |-> bound]
    ELSE LET split == split_args_by_nargs(Tail(args), num_req_args(p.type_converter))
         IN  [out |-> Return(split[2]), bound_args |-> split[1]]

MultiConvertTriggerProcessor_bind(p, bound, args) ==
    IF Len(args) = 0 THEN [out |-> Raise("TriggerError"), bound_args |-> bound]
    ELSE IF ~InList(args[1], p.triggers)
    THEN [out |-> Raise("TriggerError"), bound_args |-> bound]
    ELSE LET split == split_args_by_nargs(Tail(args), num_req_args(p.type_converter))
         IN  [out |-> Return(split[2]), bound_args |-> split[1]]

TriggerProcessor_bind(p, bound, args) ==
    CASE p.class = "Constant" -> ConstantTriggerProcessor_bind(p, bound, args)
      [] p.class = "Convert" -> ConvertTriggerProcessor_bind(p, bound, args)
      [] p.class = "MultiConvert" -> MultiConvertTriggerProcessor_bind(p, bound, args)

\* A plausible slip: a flag that was set is not set again.
ConstantTriggerProcessor_process_once(p, bound, value) ==
    IF value # Ellipsis THEN Raise("TriggerError") ELSE ReturnVal(p.constant)

ConstantTriggerProcessor_process(p, bound, value) == ReturnVal(p.constant)

\* A plausible slip: allow_replace is not looked at.
ConvertTriggerProcessor_process_replace(p, bound, value) ==
    convert(p.type_converter, bound)

ConvertTriggerProcessor_process(p, bound, value) ==
    IF value # Ellipsis /\ ~p.allow_replace
    THEN Raise("TriggerError")
    ELSE convert(p.type_converter, bound)

\* A plausible slip: the converted value replaces the list.
MultiConvertTriggerProcessor_process_replace(p, bound, value) ==
    LET append_val == convert(p.type_converter, bound)
    IN  IF append_val.tag = "raise" THEN append_val
        ELSE ReturnVal(PyList(<<append_val.val>>))

MultiConvertTriggerProcessor_process(p, bound, value) ==
    LET append_val == convert(p.type_converter, bound)
    IN  IF append_val.tag = "raise" THEN append_val
        ELSE IF value.kind # "list" THEN ReturnVal(PyList(<<append_val.val>>))
        ELSE ReturnVal(PyList(Append(value.items, append_val.val)))

TriggerProcessor_process(p, bound, value) ==
    CASE p.class = "Constant" -> ConstantTriggerProcessor_process(p, bound, value)
      [] p.class = "Convert" -> ConvertTriggerProcessor_process(p, bound, value)
      [] p.class = "MultiConvert" -> MultiConvertTriggerProcessor_process(p, bound, value)

(***************************************************************************)
(* One trigger processor, bound repeatedly                                 *)
(***************************************************************************)

MaxProcArgs == 4

MaxProcCalls == 1

\* "--x", "t", "z"
ProcTokens == { <<"-", "-", "x">>, <<"t">>, <<"z">> }

Processors ==
    { [class |-> c, triggers |-> << <<"-", "-", "x">>, <<"-", "x">> >>,
       constant |-> PyBool(TRUE), type_converter |-> conv, allow_replace |-> FALSE] :
         c \in {"Constant", "Convert", "MultiConvert"},
         conv \in {"bool", "tuple", "list"} }

ProcIdle ==
    /\ proc = [class |-> "none"]
    /\ bound_args = <<>>
    /\ procArgs = <<>>
    /\ procOut = NoCall
    /\ procCalls = 0

(***************************************************************************)
(* The schema: the parameter tree of                                       *)
(*                                                                         *)
(*   def f(p: Tuple[bool, bool], /, x: bool, l: List[bool] = [],           *)
(*         b: bool, q: bool = None, g: G)      with  class G(a: Tuple)     *)
(*                                                                         *)
(* p and q are Arguments, x, l, b and a are Options, g is a nested         *)
(* ParameterGroup.  Every node is a record of one shape.                   *)
(***************************************************************************)

T_x == <<"-", "-", "x">>

T_sx == <<"-", "x">>

T_l == <<"-", "-", "l">>

T_b == <<"-", "-", "b">>

T_sb == <<"-", "b">>

T_n == <<"-", "-", "n">>

T_a == <<"-", "-", "a">>

T_sa == <<"-", "a">>

T_ga == <<"-", "-", "g", "-", "a">>

T_gb == <<"-", "-", "g", "-", "b">>

Processor(class, triggers, constant, conv, allow_replace) ==
    [class |-> class, triggers |-> triggers, constant |-> constant,
     type_converter |-> conv, allow_replace |-> allow_replace]

Node(type, python_kind, default_value, processors, conv, this, params) ==
    [type |-> type, python_kind |-> python_kind, default_value |-> default_value,
     processors |-> processors, type_converter |-> conv,
     prefix_this |-> this, params |-> params]

Schema ==
    [root |-> Node("Group", "NONE", Ellipsis, <<>>, "", <<>>,
                   <<"p", "x", "l", "b", "q", "g">>),
     g |-> Node("Group", "POSITIONAL_OR_KEYWORD", Ellipsis, <<>>, "", <<"g">>, <<"a">>),
     p |-> Node("Argument", "POSITIONAL_ONLY", Ellipsis, <<>>, "tuple", <<>>, <<>>),
     q |-> Node("Argument", "POSITIONAL_OR_KEYWORD", None, <<>>, "bool", <<>>, <<>>),
     x |-> Node("Option", "POSITIONAL_OR_KEYWORD", Ellipsis,
                <<Processor("Convert", <<T_x, T_sx>>, Ellipsis, "bool", FALSE)>>,
                "", <<>>, <<>>),
     l |-> Node("Option", "POSITIONAL_OR_KEYWORD", PyList(<<>>),
                <<Processor("MultiConvert", <<T_l>>, Ellipsis, "bool", FALSE)>>,
                "", <<>>, <<>>),
     b |-> Node("Option", "POSITIONAL_OR_KEYWORD", Ellipsis,
                <<Processor("Constant", <<T_b, T_sb>>, PyBool(TRUE), "", FALSE),
                  Processor("Constant", <<T_n>>, PyBool(FALSE), "", FALSE)>>,
                "", <<>>, <<>>),
     a |-> Node("Option", "POSITIONAL_OR_KEYWORD", Ellipsis,
                <<Processor("Convert", <<T_a, T_sa>>, Ellipsis, "tuple", TRUE)>>,
                "", <<>>, <<>>),
     \* def d(d1: bool, e: E) with class E(e1: bool): d1 is declared with the
     \* trigger "--g-a", e1 with "--a" and E hands its children the prefix "g"
     d |-> Node("Group", "NONE", Ellipsis, <<>>, "", <<>>, <<"d1", "e">>),
     e |-> Node("Group", "POSITIONAL_OR_KEYWORD", Ellipsis, <<>>, "", <<"g">>, <<"e1">>),
     d1 |-> Node("Option", "POSITIONAL_OR_KEYWORD", Ellipsis,
                 <<Processor("Convert", <<T_ga>>, Ellipsis, "bool", FALSE)>>,
                 "", <<>>, <<>>),
     e1 |-> Node("Option", "POSITIONAL_OR_KEYWORD", Ellipsis,
                 <<Processor("Convert", <<T_a>>, Ellipsis, "bool", FALSE)>>,
                 "", <<>>, <<>>),
     \* def h(hq: bool, *hv: bool, ho: bool = False): hq and hv are turned into
     \* Arguments, ho into a flag with the trigger "--g-a"
     h |-> Node("Group", "NONE", Ellipsis, <<>>, "", <<>>, <<"hq", "hv", "ho">>),
     ho |-> Node("Option", "KEYWORD_ONLY", PyBool(FALSE),
                 <<Processor("Constant", <<T_ga>>, PyBool(TRUE), "", FALSE)>>,
                 "", <<>>, <<>>),
     hq |-> Node("Argument", "POSITIONAL_OR_KEYWORD", Ellipsis, <<>>, "bool", <<>>, <<>>),
     hv |-> Node("Argument", "VAR_POSITIONAL", Ellipsis, <<>>, "list", <<>>, <<>>),
     \* def w(wa: bool, wb: bool = False, n: N = N(True, False)) with
     \* class N(na: bool, nb: bool = False); N hands its children the prefix "g"
     w |-> Node("Group", "NONE", Ellipsis, <<>>, "", <<>>, <<"wa", "wb", "n">>),
     n |-> Node("Group", "POSITIONAL_OR_KEYWORD",
                Object("n", <<PyBool(TRUE), PyBool(FALSE)>>), <<>>, "", <<"g">>,
                <<"na", "nb">>),
     wa |-> Node("Option", "POSITIONAL_OR_KEYWORD", Ellipsis,
                 <<Processor("Convert", <<T_x>>, Ellipsis, "bool", FALSE)>>,
                 "", <<>>, <<>>),
     wb |-> Node("Option", "POSITIONAL_OR_KEYWORD", PyBool(FALSE),
                 <<Processor("Convert", <<T_b>>, Ellipsis, "bool", FALSE)>>,
                 "", <<>>, <<>>),
     na |-> Node("Option", "POSITIONAL_OR_KEYWORD", Ellipsis,
                 <<Processor("Convert", <<T_a>>, Ellipsis, "bool", FALSE)>>,
                 "", <<>>, <<>>),
     nb |-> Node("Option", "POSITIONAL_OR_KEYWORD", PyBool(FALSE),
                 <<Processor("Convert", <<T_b>>, Ellipsis, "bool", FALSE)>>,
                 "", <<>>, <<>>),
     \* class C(cx: bool = False) with the methods m(self, m1: bool) -> None,
     \* k(self, k1: bool, /) -> C and u(self, u1: bool, u2: bool) -> None; k1
     \* is turned into an Argument, u1 and u2 are both declared with the
     \* trigger "--a"
     c |-> Node("Group", "NONE", Ellipsis, <<>>, "", <<>>, <<"cx">>),
     cx |-> Node("Option", "POSITIONAL_OR_KEYWORD", PyBool(FALSE),
                 <<Processor("Convert", <<T_x>>, Ellipsis, "bool", FALSE)>>,
                 "", <<>>, <<>>),
     m |-> Node("Group", "NONE", Ellipsis, <<>>, "", <<>>, <<"m1">>),
     m1 |-> Node("Option", "POSITIONAL_OR_KEYWORD", Ellipsis,
                 <<Processor("Convert", <<T_a>>, Ellipsis, "bool", FALSE)>>,
                 "", <<>>, <<>>),
     k |-> Node("Group", "NONE", Ellipsis, <<>>, "", <<>>, <<"k1">>),
     k1 |-> Node("Argument", "POSITIONAL_ONLY", Ellipsis, <<>>, "bool", <<>>, <<>>),
     u |-> Node("Group", "NONE", Ellipsis, <<>>, "", <<>>, <<"u1", "u2">>),
     u1 |-> Node("Option", "POSITIONAL_OR_KEYWORD", Ellipsis,
                 <<Processor("Convert", <<T_a>>, Ellipsis, "bool", FALSE)>>,
                 "", <<>>, <<>>),
     u2 |-> Node("Option", "POSITIONAL_OR_KEYWORD", Ellipsis,
                 <<Processor("Convert", <<T_a>>, Ellipsis, "bool", FALSE)>>,
                 "", <<>>, <<>>)]

\* The tree of the Command: root and what is under it.
GroupIds == {"root", "g"}

LeafIds == {"p", "q", "x", "l", "b", "a"}

\* The groups and the leaves of all the trees.
AllGroupIds == GroupIds \cup {"d", "e", "h", "w", "n", "c", "m", "k", "u"}

AllLeafIds ==
    LeafIds \cup {"d1", "e1", "hq", "hv", "ho", "wa", "wb", "na", "nb", "cx", "m1", "k1",
                 "u1", "u2"}

\* The group a node is a parameter of ("" for the root).
Parent(id) ==
    IF \E gid \in AllGroupIds : InList(id, Schema[gid].params)
    THEN CHOOSE gid \in AllGroupIds : InList(id, Schema[gid].params)
    ELSE ""

(***************************************************************************)
(* parameters/group.py: the views of a group and the prefixes              *)
(***************************************************************************)

posargs(gid) ==
    SelectSeq(Schema[gid].params, LAMBDA id : Schema[id].python_kind = "POSITIONAL_ONLY")

varposargs(gid) ==
    SelectSeq(Schema[gid].params, LAMBDA id : Schema[id].python_kind = "VAR_POSITIONAL")

kwargs(gid) ==
    SelectSeq(Schema[gid].params,
           LAMBDA id : Schema[id].python_kind \in {"POSITIONAL_OR_KEYWORD", "KEYWORD_ONLY"})

cli_args(gid) ==
    SelectSeq(posargs(gid), LAMBDA id : Schema[id].type = "Argument")
        \o SelectSeq(varposargs(gid), LAMBDA id : Schema[id].type = "Argument")
        \o SelectSeq(kwargs(gid), LAMBDA id : Schema[id].type = "Argument")

cli_opts(gid) ==
    SelectSeq(posargs(gid), LAMBDA id : Schema[id].type \in {"Option", "Group"})
        \o SelectSeq(varposargs(gid), LAMBDA id : Schema[id].type \in {"Option", "Group"})
        \o SelectSeq(kwargs(gid), LAMBDA id : Schema[id].type \in {"Option", "Group"})

\* A plausible slip: an empty component is joined like any other.
JoinPrefix_keep_empty(parent, this) == parent \o <<"-">> \o this

\* "-".join(prefixes) of the non-empty ones of prefix_parent and prefix_this
JoinPrefix(parent, this) ==
    IF parent = <<>> THEN this
    ELSE IF this = <<>> THEN parent
    ELSE parent \o <<"-">> \o this

\* child_prefix of a group; its prefix_parent is the child_prefix of the
\* group it is a parameter of (_set_prefix_children).
RECURSIVE child_prefix(_)
child_prefix(gid) ==
    JoinPrefix(IF Parent(gid) = "" THEN <<>> ELSE child_prefix(Parent(gid)),
               Schema[gid].prefix_this)

\* The prefix _set_prefix_children gives an Option.
prefix(id) == child_prefix(Parent(id))

(***************************************************************************)
(* parameters/base.py: Option._adjust_triggers                             *)
(***************************************************************************)

\* f"--{prefix}-{trigger[2:]}"
adjust_trigger(pre, trigger) ==
    <<"-", "-">> \o pre \o <<"-">> \o SubSeq(trigger, 3, Len(trigger))

\* A plausible slip: the short triggers are kept under a prefix.
adjust_triggers_keep_short(pre, triggers) ==
    IF pre = <<>> THEN triggers
    ELSE [i \in 1..Len(triggers) |->
            IF StartsWithDashDash(triggers[i]) THEN adjust_trigger(pre, triggers[i])
            ELSE triggers[i]]

\* _adjust_triggers, on the trigger list of one processor.
adjust_triggers(pre, triggers) ==
    IF pre = <<>> THEN triggers
    ELSE LET filtered_triggers == SelectSeq(triggers, StartsWithDashDash)
         IN  [i \in 1..Len(filtered_triggers) |-> adjust_trigger(pre, filtered_triggers[i])]

Range(list) == {list[i] : i \in 1..Len(list)}

\* The processors of an Option with their triggers adjusted by its prefix.
final_processors(id) ==
    [k \in 1..Len(Schema[id].processors) |->
        [Schema[id].processors[k] EXCEPT
            !.triggers = adjust_triggers(prefix(id), Schema[id].processors[k].triggers)]]

\* Option.final_triggers: the union over the processors.
final_triggers(id) ==
    UNION {Range(final_processors(id)[k].triggers) : k \in 1..Len(Schema[id].processors)}

(***************************************************************************)
(* The binding state of a tree and the leaves' operations                  *)
(***************************************************************************)

FreshLeaves == [id \in AllLeafIds |-> [value |-> Ellipsis, exceptions |-> <<>>]]

FreshBound == [id \in AllLeafIds |-> [k \in 1..Len(Schema[id].processors) |-> <<>>]]

FreshNumBound == [gid \in AllGroupIds |-> 0]

Fresh == [leaves |-> FreshLeaves, bound |-> FreshBound, num_bound |-> FreshNumBound]

\* A step of an operation: the binding state it leaves and its outcome.
Step(ps, out) == [ps |-> ps, out |-> out]

\* self._exceptions.append(e)
Defer(ps, id, e) ==
    [ps EXCEPT !.leaves[id].exceptions = Append(@, e)]

\* Parameter.unset
unset(ps, id) ==
    ps.leaves[id].value = Ellipsis /\ ps.leaves[id].exceptions = <<>>

\* Parameter.value
value(ps, id) ==
    IF ps.leaves[id].exceptions # <<>> THEN Raise(ps.leaves[id].exceptions[1])
    ELSE IF ps.leaves[id].value # Ellipsis THEN ReturnVal(ps.leaves[id].value)
    ELSE IF Schema[id].default_value # Ellipsis THEN ReturnVal(Schema[id].default_value)
    ELSE Raise(IF Schema[id].type = "Option" THEN "UnspecifiedOptionError"
               ELSE "UnspecifiedArgumentError")

\* A plausible slip: a failure of bind is raised to the caller.
Option_process_failfast(ps, id, args) ==
    IF Len(args) = 0 THEN Step(ps, Raise("TriggerError"))
    ELSE IF args[1] \notin final_triggers(id) THEN Step(ps, Raise("TriggerError"))
    ELSE LET k == CHOOSE k \in 1..Len(Schema[id].processors) :
                      InList(args[1], final_processors(id)[k].triggers)
             processor == final_processors(id)[k]
             b == TriggerProcessor_bind(processor, ps.bound[id][k], args)
             ps1 == [ps EXCEPT !.bound[id][k] = b.bound_args]
             v == TriggerProcessor_process(processor, b.bound_args, ps.leaves[id].value)
         IN  IF b.out.tag = "raise" THEN Step(ps, b.out)
             ELSE IF v.tag = "raise" THEN Step(ps1, v)
             ELSE Step([ps1 EXCEPT !.leaves[id].value = v.val], Return(b.out.ret))

\* Option.process
Option_process(ps, id, args) ==
    IF Len(args) = 0 THEN Step(ps, Raise("TriggerError"))
    ELSE IF args[1] \notin final_triggers(id) THEN Step(ps, Raise("TriggerError"))
    ELSE LET k == CHOOSE k \in 1..Len(Schema[id].processors) :
                      InList(args[1], final_processors(id)[k].triggers)
             processor == final_processors(id)[k]
             b == TriggerProcessor_bind(processor, ps.bound[id][k], args)
             ps1 == [ps EXCEPT !.bound[id][k] = b.bound_args]
             v == TriggerProcessor_process(processor, b.bound_args, ps.leaves[id].value)
         IN  IF b.out.tag = "raise" THEN Step(Defer(ps, id, b.out.exc), Return(<<>>))
             ELSE IF v.tag = "raise" THEN Step(Defer(ps1, id, v.exc), Return(b.out.ret))
             ELSE Step([ps1 EXCEPT !.leaves[id].value = v.val], Return(b.out.ret))

\* Argument.process
Argument_process(ps, id, args) ==
    LET split == split_args_by_nargs(args, num_req_args(Schema[id].type_converter))
        v == convert(Schema[id].type_converter, split[1])
    IN  IF v.tag = "raise" THEN Step(Defer(ps, id, v.exc), Return(split[2]))
        ELSE Step([ps EXCEPT !.leaves[id].value = v.val], Return(split[2]))

(***************************************************************************)
(* parameters/group.py: ParameterGroup.final_trigger_map and process       *)
(***************************************************************************)

\* final_trigger_map: dup when a trigger is met twice (the map is then not
\* built, DuplicatedTriggerError is raised), else map, the set of
\* <<trigger, parameter>> pairs.  A trigger of a nested group maps to the
\* nested group, not to its Option.
RECURSIVE final_trigger_map(_)
final_trigger_map(gid) ==
    LET opts == cli_opts(gid)
        sub(id) == final_trigger_map(id)
        triggers_of(id) ==
            IF Schema[id].type = "Option" THEN final_triggers(id)
            ELSE {pair[1] : pair \in sub(id).map}
    IN  [dup |-> \/ \E i \in 1..Len(opts) :
                      Schema[opts[i]].type = "Group" /\ sub(opts[i]).dup
                 \/ \E i, j \in 1..Len(opts) :
                      i < j /\ triggers_of(opts[i]) \cap triggers_of(opts[j]) # {},
         map |-> UNION {triggers_of(opts[k]) \X {opts[k]} : k \in 1..Len(opts)}]

\* ParameterGroup.__attrs_post_init__: the prefixes are handed to the
\* children (prefix above) and the return annotation is normalised; the
\* trigger map is not built and nothing is raised.
ParameterGroup_attrs_post_init(gid) == ReturnVal(None)

\* A plausible slip: the test of unset looks at the value slot alone.
unset_cli_args_value_only(ps, gid) ==
    SelectSeq(cli_args(gid), LAMBDA id : ps.leaves[id].value = Ellipsis)

\* for argument in self.cli_args: if argument.unset: ...
unset_cli_args(ps, gid) == SelectSeq(cli_args(gid), LAMBDA id : unset(ps, id))

\* self._num_bound += 1
count_bound(ps, gid) == [ps EXCEPT !.num_bound[gid] = @ + 1]

\* A plausible slip: the counter is incremented before the trigger is looked up.
RECURSIVE ParameterGroup_process_count_first(_, _, _)
ParameterGroup_process_count_first(ps, gid, input_args) ==
    IF Len(input_args) = 0 THEN Step(ps, Return(<<>>))
    ELSE IF StartsWithDash(input_args[1])
    THEN LET opts_by_trigger == final_trigger_map(gid)
             ps1 == count_bound(ps, gid)
         IN  IF opts_by_trigger.dup THEN Step(ps, Raise("DuplicatedTriggerError"))
             ELSE IF \E pair \in opts_by_trigger.map : pair[1] = input_args[1]
             THEN LET opt == (CHOOSE pair \in opts_by_trigger.map :
                                  pair[1] = input_args[1])[2]
                  IN  IF Schema[opt].type = "Option"
                      THEN Option_process(ps1, opt, input_args)
                      ELSE ParameterGroup_process_count_first(ps1, opt, input_args)
             ELSE Step(ps1, Raise("TriggerError"))
    ELSE LET candidates == unset_cli_args(ps, gid)
         IN  IF candidates # <<>>
             THEN LET argument == Head(candidates)
                      split == split_args_by_nargs(
                                   input_args, num_req_args(Schema[argument].type_converter))
                      bound == Argument_process(count_bound(ps, gid), argument, split[1])
                  IN  IF bound.out.tag = "raise" THEN bound
                      ELSE Step(bound.ps, Return(split[2]))
             ELSE Step(ps, Return(input_args))

\* A plausible slip: a token group nobody takes is counted as bound.
RECURSIVE ParameterGroup_process_count_unbound(_, _, _)
ParameterGroup_process_count_unbound(ps, gid, input_args) ==
    IF Len(input_args) = 0 THEN Step(ps, Return(<<>>))
    ELSE IF StartsWithDash(input_args[1])
    THEN LET opts_by_trigger == final_trigger_map(gid)
             ps1 == count_bound(ps, gid)
         IN  IF opts_by_trigger.dup THEN Step(ps, Raise("DuplicatedTriggerError"))
             ELSE IF \E pair \in opts_by_trigger.map : pair[1] = input_args[1]
             THEN LET opt == (CHOOSE pair \in opts_by_trigger.map :
                                  pair[1] = input_args[1])[2]
                  IN  IF Schema[opt].type = "Option"
                      THEN Option_process(ps1, opt, input_args)
                      ELSE ParameterGroup_process_count_unbound(ps1, opt, input_args)
             ELSE Step(ps, Raise("TriggerError"))
    ELSE LET candidates == unset_cli_args(ps, gid)
         IN  IF candidates # <<>>
             THEN LET argument == Head(candidates)
                      split == split_args_by_nargs(
                                   input_args, num_req_args(Schema[argument].type_converter))
                      bound == Argument_process(count_bound(ps, gid), argument, split[1])
                  IN  IF bound.out.tag = "raise" THEN bound
                      ELSE Step(bound.ps, Return(split[2]))
             ELSE Step(count_bound(ps, gid), Return(input_args))

\* ParameterGroup.process
RECURSIVE ParameterGroup_process(_, _, _)
ParameterGroup_process(ps, gid, input_args) ==
    IF Len(input_args) = 0 THEN Step(ps, Return(<<>>))
    ELSE IF StartsWithDash(input_args[1])
    THEN LET opts_by_trigger == final_trigger_map(gid)
             ps1 == count_bound(ps, gid)
         IN  IF opts_by_trigger.dup THEN Step(ps, Raise("DuplicatedTriggerError"))
             ELSE IF \E pair \in opts_by_trigger.map : pair[1] = input_args[1]
             THEN LET opt == (CHOOSE pair \in opts_by_trigger.map :
                                  pair[1] = input_args[1])[2]
                  IN  IF Schema[opt].type = "Option"
                      THEN Option_process(ps1, opt, input_args)
                      ELSE ParameterGroup_process(ps1, opt, input_args)
             ELSE Step(ps, Raise("TriggerError"))
    ELSE LET candidates == unset_cli_args(ps, gid)
         IN  IF candidates # <<>>
             THEN LET argument == Head(candidates)
                      split == split_args_by_nargs(
                                   input_args, num_req_args(Schema[argument].type_converter))
                      bound == Argument_process(count_bound(ps, gid), argument, split[1])
                  IN  IF bound.out.tag = "raise" THEN bound
                      ELSE Step(bound.ps, Return(split[2]))
             ELSE Step(ps, Return(input_args))

(***************************************************************************)
(* exceptions.py and parameters/group.py: _exec_obj and value              *)
(*                                                                         *)
(* An exception is a record of its class, its __cause__ (a list of no or   *)
(* one exception) and, for an exception group, the exceptions it holds.    *)
(* A read gives a record of its outcome and of the wrapped callables that  *)
(* were invoked on the way, in the order of the calls.                     *)
(***************************************************************************)

Exc(class, cause, exceptions) ==
    [class |-> class, cause |-> cause, exceptions |-> exceptions]

NoExc == Exc("", <<>>, <<>>)

\* isinstance(x, ParameterError): ParameterError and MultiParameterError
\* are the two classes of exceptions.py that derive from it.
IsParameterError(e) == e.class \in {"ParameterError", "MultiParameterError"}

Returned(v, invoked) == [tag |-> "return", val |-> v, exc |-> NoExc, invoked |-> invoked]

Raised(e, invoked) == [tag |-> "raise", val |-> Ellipsis, exc |-> e, invoked |-> invoked]

NoRead == [tag |-> "none", val |-> Ellipsis, exc |-> NoExc, invoked |-> <<>>]

\* self.obj(*args, **kwargs): w raises ValueError when wb is true, every
\* other callable returns the object made of its arguments.
obj(gid, args, kwvalues) ==
    IF gid = "w" /\ \E i \in 1..Len(kwvalues) : kwvalues[i] = <<"wb", PyBool(TRUE)>>
    THEN Raise("ValueError")
    ELSE ReturnVal(Object(gid, args \o [i \in 1..Len(kwvalues) |-> kwvalues[i][2]]))

_num_params(gid) == Len(posargs(gid)) + Len(varposargs(gid)) + Len(kwargs(gid))

\* The one element of a set of one element: what is computed once is bound
\* as r in The({... r ... : r \in {computed}}).
The(S) == CHOOSE x \in S : TRUE

RECURSIVE ParameterGroup_value(_, _)

\* x.value of a parameter of a group, a leaf or a nested group
param_value(ps, id) ==
    IF Schema[id].type = "Group" THEN ParameterGroup_value(ps, id)
    ELSE The({IF v.tag = "raise" THEN Raised(Exc(v.exc, <<>>, <<>>), <<>>)
              ELSE Returned(v.val, <<>>) : v \in {value(ps, id)}})

\* The reads of a list of parameters, one after the other, every one made.
RECURSIVE values_with_excs(_, _)
values_with_excs(ps, ids) ==
    IF ids = <<>> THEN <<>>
    ELSE <<param_value(ps, Head(ids))>> \o values_with_excs(ps, Tail(ids))

\* The wrapped callables a list of reads invoked.
RECURSIVE Invoked(_)
Invoked(reads) ==
    IF reads = <<>> THEN <<>> ELSE Head(reads).invoked \o Invoked(Tail(reads))

\* The reads of a list of parameters up to the first that raises.
RECURSIVE values_until_raise(_, _)
values_until_raise(ps, ids) ==
    IF ids = <<>> THEN <<>>
    ELSE The({IF one.tag = "raise" THEN <<one>>
              ELSE <<one>> \o values_until_raise(ps, Tail(ids)) :
              one \in {param_value(ps, Head(ids))}})

\* The values a VAR_POSITIONAL parameter adds to the positional ones:
\* res.extend(arg.value)
Extend(reads) ==
    LET RECURSIVE ext(_)
        ext(rs) == IF rs = <<>> THEN <<>> ELSE Head(rs).val.items \o ext(Tail(rs))
    IN  ext(reads)

\* [x for x in args if isinstance(x, ParameterError)] + [v for v in
\* kwargs.values() if isinstance(v, ParameterError)]
caught_errors(reads) ==
    LET failed == SelectSeq(reads, LAMBDA r : r.tag = "raise" /\ IsParameterError(r.exc))
    IN  [i \in 1..Len(failed) |-> failed[i].exc]

\* try: res_obj = self.obj(...) except Exception as e: raise
\* ParameterError("Error processing object ...") from e
call_obj(gid, args, kwvalues, invoked) ==
    LET res_obj == obj(gid, args, kwvalues)
    IN  IF res_obj.tag = "raise"
        THEN Raised(Exc("ParameterError", <<Exc(res_obj.exc, <<>>, <<>>)>>, <<>>),
                    Append(invoked, gid))
        ELSE Returned(res_obj.val, Append(invoked, gid))

\* ParameterGroup._exec_obj.  Every group of the schema wraps a class or a
\* function that returns what its annotation says.  The parameters are read
\* twice: once by args_values_with_excs and kwargs_values_with_excs, and
\* once more, inside the try, by args_values and kwargs_values.
exec_obj_try(gid, with_excs, pos, var, kw) ==
    LET errors == caught_errors(with_excs)
        again == pos \o var \o kw
        invoked == Invoked(with_excs) \o Invoked(again)
    IN  IF Len(errors) > 0
        THEN Raised(Exc("MultiParameterError", <<>>, errors), Invoked(with_excs))
        ELSE IF again # <<>> /\ again[Len(again)].tag = "raise"
        THEN Raised(Exc("ParameterError", <<again[Len(again)].exc>>, <<>>), invoked)
        ELSE call_obj(gid,
                      [i \in 1..Len(pos) |-> pos[i].val] \o Extend(var),
                      [i \in 1..Len(kw) |-> <<kwargs(gid)[i], kw[i].val>>],
                      invoked)

_exec_obj(ps, gid) ==
    The({The({The({The({exec_obj_try(gid, with_excs, pos, var, kw) :
        kw \in {IF \/ pos # <<>> /\ pos[Len(pos)].tag = "raise"
                   \/ var # <<>> /\ var[Len(var)].tag = "raise"
                THEN <<>>
                ELSE values_until_raise(ps, kwargs(gid))}}) :
        var \in {IF pos # <<>> /\ pos[Len(pos)].tag = "raise" THEN <<>>
                 ELSE values_until_raise(ps, varposargs(gid))}}) :
        pos \in {values_until_raise(ps, posargs(gid))}}) :
        with_excs \in {values_with_excs(ps, posargs(gid) \o varposargs(gid)
                                                \o kwargs(gid))}})

\* A plausible slip: the default of the group is returned whatever was
\* bound.
ParameterGroup_value_default_first(ps, gid) ==
    IF _num_params(gid) = 0 \/ Schema[gid].default_value = Ellipsis
    THEN _exec_obj(ps, gid)
    ELSE Returned(Schema[gid].default_value, <<>>)

\* ParameterGroup.value; unset is _num_bound == 0
ParameterGroup_value(ps, gid) ==
    IF \/ _num_params(gid) = 0
       \/ ps.num_bound[gid] # 0
       \/ Schema[gid].default_value = Ellipsis
    THEN The({IF r.tag = "raise" /\ ~IsParameterError(r.exc)
              THEN Raised(Exc("ParameterError", <<r.exc>>, <<>>), r.invoked)
              ELSE r : r \in {_exec_obj(ps, gid)}})
    ELSE Returned(Schema[gid].default_value, <<>>)

(***************************************************************************)
(* command.py: the global callbacks                                        *)
(***************************************************************************)

\* "--0", the trigger of noop_callback
T_0 == <<"-", "-", "0">>

\* Command.global_callbacks: the no-op delimiter
global_callbacks == << [triggers |-> <<T_0>>] >>

\* Command._global_callbacks_map, as the set of <<trigger, callback index>>
global_callbacks_map ==
    {<<global_callbacks[i].triggers[k], i>> :
        i \in 1..Len(global_callbacks), k \in 1..1}

\* Callback.execute: the returned list, or None.
Callback_execute(cb, args) ==
    IF Len(args) > 1 THEN ReturnVal(PyList(Tail(args))) ELSE ReturnVal(None)

\* A plausible slip: the leftover is queued behind the pending groups.
appendleft_at_end(deque, x) == Append(deque, x)

\* input_args_deque.appendleft(list(args_return))
appendleft(deque, x) == <<x>> \o deque

\* undeque: the pending groups as one flat list
undeque(deque) == chain(deque)

(***************************************************************************)
(* parameters/base.py: BoolOption, KnownLenOpt, KnownLenArg                *)
(*                                                                         *)
(* A leaf's state is [value, bound_args_list]: the _value of a BoolOption  *)
(* and the list of bound token lists of a KnownLenOpt (for a KnownLenArg   *)
(* the list is empty when _bound_args is None and holds the one BoundArgs  *)
(* otherwise).  bind and value return the leaves they leave and the        *)
(* outcome of the call.                                                    *)
(***************************************************************************)

BaseLeaf(class, default_value, multiple, triggers, neg_triggers, type_converter) ==
    [class |-> class, default_value |-> default_value, multiple |-> multiple,
     prefix |-> <<>>, triggers |-> triggers, neg_triggers |-> neg_triggers,
     type_converter |-> type_converter]

\* bo: a flag without default; ko: a bool option whose default is None;
\* ka: a positional pair of bools without default.
BaseSchema ==
    [bo |-> BaseLeaf("BoolOption", Ellipsis, FALSE, <<T_b>>, <<T_n>>, ""),
     ko |-> BaseLeaf("KnownLenOpt", None, FALSE, <<T_x, T_sx>>, <<>>, "bool"),
     ka |-> BaseLeaf("KnownLenArg", Ellipsis, FALSE, <<>>, <<>>, "tuple")]

BaseIds == {"bo", "ko", "ka"}

BaseFresh == [id \in BaseIds |-> [value |-> Ellipsis, bound_args_list |-> <<>>]]

BaseStep(bl, out) == [leaves |-> bl, out |-> out]

\* BoundArgs.convert
BoundArgs_convert(conv, args) == convert(conv, args)

\* BoolOption.unset
BoolOption_unset(bl, id) == bl[id].value = Ellipsis

\* KnownLenOpt.unset
KnownLenOpt_unset(bl, id) == Len(bl[id].bound_args_list) = 0

\* KnownLenArg.unset
KnownLenArg_unset(bl, id) == bl[id].bound_args_list = <<>>

\* BoolOption.nargs
BoolOption_nargs(id) == 1

\* KnownLenOpt.nargs
KnownLenOpt_nargs(id) ==
    IF num_required_args(BaseSchema[id].type_converter).min = -1 THEN -1
    ELSE num_required_args(BaseSchema[id].type_converter).min + 1

\* KnownLenArg.nargs
KnownLenArg_nargs(id) == num_required_args(BaseSchema[id].type_converter).max

\* BoolOption.final_pos_triggers
final_pos_triggers(id) ==
    Range(adjust_triggers(BaseSchema[id].prefix, BaseSchema[id].triggers))

\* BoolOption.final_neg_triggers
final_neg_triggers(id) ==
    Range(adjust_triggers(BaseSchema[id].prefix, BaseSchema[id].neg_triggers))

\* KnownLenOpt.final_trigger_mappings, its keys
final_trigger_mappings(id) ==
    Range(adjust_triggers(BaseSchema[id].prefix, BaseSchema[id].triggers))

\* BoolOption.bind
BoolOption_bind(bl, id, args) ==
    IF BoolOption_nargs(id) # -1 /\ Len(args) # BoolOption_nargs(id)
    THEN BaseStep(bl, Raise("OptionError"))
    ELSE IF BoolOption_unset(bl, id) \/ BaseSchema[id].multiple
    THEN IF args[1] \in final_pos_triggers(id)
         THEN BaseStep([bl EXCEPT ![id].value = PyBool(TRUE)], ReturnVal(None))
         ELSE IF args[1] \in final_neg_triggers(id)
         THEN BaseStep([bl EXCEPT ![id].value = PyBool(FALSE)], ReturnVal(None))
         ELSE BaseStep(bl, Raise("UnexpectedTriggerError"))
    ELSE BaseStep(bl, Raise("Exception"))

\* KnownLenOpt._process_args
KnownLenOpt_process_args(bl, id, args) ==
    IF KnownLenOpt_unset(bl, id) \/ BaseSchema[id].multiple
    THEN BaseStep([bl EXCEPT ![id].bound_args_list = Append(@, args)], ReturnVal(None))
    ELSE BaseStep(bl, Raise("Exception"))

\* KnownLenOpt.bind
KnownLenOpt_bind(bl, id, args) ==
    IF KnownLenOpt_nargs(id) # -1 /\ Len(args) # KnownLenOpt_nargs(id)
    THEN BaseStep(bl, Raise("OptionError"))
    ELSE IF args[1] \notin final_trigger_mappings(id)
    THEN BaseStep(bl, Raise("UnexpectedTriggerError"))
    ELSE KnownLenOpt_process_args(bl, id, Tail(args))

\* KnownLenArg._process_args
KnownLenArg_process_args(bl, id, args) ==
    IF KnownLenArg_unset(bl, id)
    THEN BaseStep([bl EXCEPT ![id].bound_args_list = <<args>>], ReturnVal(None))
    ELSE BaseStep(bl, Raise("Exception"))

\* KnownLenArg.bind
KnownLenArg_bind(bl, id, args) ==
    IF KnownLenArg_nargs(id) # -1 /\ Len(args) # KnownLenArg_nargs(id)
    THEN BaseStep(bl, Raise("ArgumentError"))
    ELSE KnownLenArg_process_args(bl, id, args)

\* Parameter.bind, by the class of the leaf
Parameter_bind(bl, id, args) ==
    CASE BaseSchema[id].class = "BoolOption" -> BoolOption_bind(bl, id, args)
      [] BaseSchema[id].class = "KnownLenOpt" -> KnownLenOpt_bind(bl, id, args)
      [] BaseSchema[id].class = "KnownLenArg" -> KnownLenArg_bind(bl, id, args)

\* BoolOption.value
BoolOption_value(bl, id) ==
    IF BoolOption_unset(bl, id)
    THEN IF BaseSchema[id].default_value = Ellipsis
         THEN BaseStep(bl, Raise("UnspecifiedOptionError"))
         ELSE BaseStep(bl, ReturnVal(BaseSchema[id].default_value))
    ELSE BaseStep(bl, ReturnVal(bl[id].value))

\* [x.convert() for x in self._bound_args_list]
RECURSIVE convert_all(_, _, _)
convert_all(conv, bound_args_list, acc) ==
    IF bound_args_list = <<>> THEN ReturnVal(PyList(acc))
    ELSE LET one == BoundArgs_convert(conv, Head(bound_args_list))
         IN  IF one.tag = "raise" THEN one
             ELSE convert_all(conv, Tail(bound_args_list), Append(acc, one.val))

\* A plausible slip: a default of None is taken for a missing default.
KnownLenOpt_value_none_is_unset(bl, id) ==
    IF KnownLenOpt_unset(bl, id)
    THEN IF BaseSchema[id].default_value \in {Ellipsis, None}
         THEN BaseStep(bl, Raise("UnspecifiedOptionError"))
         ELSE BaseStep(bl, ReturnVal(BaseSchema[id].default_value))
    ELSE IF BaseSchema[id].multiple
    THEN BaseStep(bl, convert_all(BaseSchema[id].type_converter,
                                  bl[id].bound_args_list, <<>>))
    ELSE BaseStep(bl, BoundArgs_convert(BaseSchema[id].type_converter,
                                        bl[id].bound_args_list[1]))

\* KnownLenOpt.value
KnownLenOpt_value(bl, id) ==
    IF KnownLenOpt_unset(bl, id)
    THEN IF BaseSchema[id].default_value = Ellipsis
         THEN BaseStep(bl, Raise("UnspecifiedOptionError"))
         ELSE BaseStep(bl, ReturnVal(BaseSchema[id].default_value))
    ELSE IF BaseSchema[id].multiple
    THEN BaseStep(bl, convert_all(BaseSchema[id].type_converter,
                                  bl[id].bound_args_list, <<>>))
    ELSE BaseStep(bl, BoundArgs_convert(BaseSchema[id].type_converter,
                                        bl[id].bound_args_list[1]))

\* A plausible slip: the read hands the bound tokens over and forgets them.
KnownLenArg_value_consuming(bl, id) ==
    IF KnownLenArg_unset(bl, id)
    THEN IF BaseSchema[id].default_value = Ellipsis
         THEN BaseStep(bl, Raise("UnspecifiedArgumentError"))
         ELSE BaseStep(bl, ReturnVal(BaseSchema[id].default_value))
    ELSE BaseStep([bl EXCEPT ![id].bound_args_list = <<>>],
                  BoundArgs_convert(BaseSchema[id].type_converter,
                                    bl[id].bound_args_list[1]))

\* KnownLenArg.value
KnownLenArg_value(bl, id) ==
    IF KnownLenArg_unset(bl, id)
    THEN IF BaseSchema[id].default_value = Ellipsis
         THEN BaseStep(bl, Raise("UnspecifiedArgumentError"))
         ELSE BaseStep(bl, ReturnVal(BaseSchema[id].default_value))
    ELSE BaseStep(bl, BoundArgs_convert(BaseSchema[id].type_converter,
                                        bl[id].bound_args_list[1]))

\* Parameter.value, by the class of the leaf
Parameter_value(bl, id) ==
    CASE BaseSchema[id].class = "BoolOption" -> BoolOption_value(bl, id)
      [] BaseSchema[id].class = "KnownLenOpt" -> KnownLenOpt_value(bl, id)
      [] BaseSchema[id].class = "KnownLenArg" -> KnownLenArg_value(bl, id)

\* Parameter.unset, by the class of the leaf
Parameter_unset(bl, id) ==
    CASE BaseSchema[id].class = "BoolOption" -> BoolOption_unset(bl, id)
      [] BaseSchema[id].class = "KnownLenOpt" -> KnownLenOpt_unset(bl, id)
      [] BaseSchema[id].class = "KnownLenArg" -> KnownLenArg_unset(bl, id)

(***************************************************************************)
(* parameters/group.py: the prefixes of a tree under assignment            *)
(*                                                                         *)
(* The tree of  def f(nested: Klass, integer: int)  with                   *)
(* class Klass(a, inner: Inner)  and  class Inner(b): three groups, one    *)
(* below the other, each with one Option.  ts is the record of the         *)
(* prefix fields: prefix_parent and prefix_this of the groups, opt_prefix  *)
(* of the Options.                                                         *)
(***************************************************************************)

PfxNode(type, triggers, params) ==
    [type |-> type, triggers |-> triggers, params |-> params]

PfxSchema ==
    [f |-> PfxNode("Group", <<>>, <<"nested", "integer">>),
     nested |-> PfxNode("Group", <<>>, <<"a", "inner">>),
     inner |-> PfxNode("Group", <<>>, <<"b">>),
     integer |-> PfxNode("Option", <<T_x>>, <<>>),
     a |-> PfxNode("Option", <<T_a, T_sa>>, <<>>),
     b |-> PfxNode("Option", <<T_b>>, <<>>)]

PfxGroupIds == {"f", "nested", "inner"}

PfxOptIds == {"integer", "a", "b"}

\* The names a group is given as its prefix_this: none, "g", "h".
PfxValues == {<<>>, <<"g">>, <<"h">>}

\* prefix_this as the tree is built: f omits its name, Klass is "g", Inner
\* is "h".
PfxThisAtCreation == [f |-> <<>>, nested |-> <<"g">>, inner |-> <<"h">>]

\* ParameterGroup.child_prefix
ParameterGroup_child_prefix(ts, g) == JoinPrefix(ts.prefix_parent[g], ts.prefix_this[g])

RECURSIVE set_prefix_children_loop(_, _, _)

\* A plausible slip: the prefix_parent setter stores the prefix and does not
\* hand it on.
set_prefix_parent_shallow(ts, g, v) == [ts EXCEPT !.prefix_parent[g] = v]

\* The prefix_parent setter: the field, then _set_prefix_children.
set_prefix_parent(ts, g, v) ==
    set_prefix_children_loop([ts EXCEPT !.prefix_parent[g] = v], g, PfxSchema[g].params)

\* The loop of _set_prefix_children over cli_opts.
set_prefix_children_loop(ts, g, opts) ==
    IF opts = <<>> THEN ts
    ELSE IF PfxSchema[Head(opts)].type = "Group"
    THEN set_prefix_children_loop(
             set_prefix_parent(ts, Head(opts), ParameterGroup_child_prefix(ts, g)),
             g, Tail(opts))
    ELSE set_prefix_children_loop(
             [ts EXCEPT !.opt_prefix[Head(opts)] = ParameterGroup_child_prefix(ts, g)],
             g, Tail(opts))

\* _set_prefix_children
set_prefix_children(ts, g) == set_prefix_children_loop(ts, g, PfxSchema[g].params)

\* The prefix_this setter: the field, then _set_prefix_children.
set_prefix_this(ts, g, v) ==
    set_prefix_children([ts EXCEPT !.prefix_this[g] = v], g)

\* The fields as attrs sets them, before any __attrs_post_init__.
PfxDefaults ==
    [prefix_parent |-> [g \in PfxGroupIds |-> <<>>],
     prefix_this |-> PfxThisAtCreation,
     opt_prefix |-> [o \in PfxOptIds |-> <<>>]]

\* The tree after construction: __attrs_post_init__ of Inner, then of Klass,
\* then of f, each group being built after its parameters.
PfxConstructed ==
    set_prefix_children(
        set_prefix_children(set_prefix_children(PfxDefaults, "inner"), "nested"), "f")

\* Option.final_triggers under the prefix the Option holds.
pfx_final_triggers(ts, o) == Range(adjust_triggers(ts.opt_prefix[o], PfxSchema[o].triggers))

(***************************************************************************)
(* command.py and run.py: Command, its subcommands, process_all_args       *)
(***************************************************************************)

\* The names of the subcommands, as tokens.
N_m == <<"m">>

N_k == <<"k">>

N_u == <<"u">>

CommandIds == {"c", "m", "k", "u"}

\* Command.subcommands, as extract_subcommands makes it of the return type
\* of the group: pairs of a name and the attribute it stands for.  C has
\* the methods m, k and u; m and u return None; k returns a C.
subcommands ==
    [c |-> {<<N_m, "m">>, <<N_k, "k">>, <<N_u, "u">>},
     m |-> {},
     k |-> {<<N_m, "m">>, <<N_k, "k">>, <<N_u, "u">>},
     u |-> {}]

\* A plausible slip: the check of __attrs_post_init__ is left out.
Command_attrs_post_init_unchecked(self) == ReturnVal(None)

\* Command.__attrs_post_init__
Command_attrs_post_init(self) ==
    IF Len(cli_args(self)) > 0 /\ subcommands[self] # {}
    THEN Raise("Exception")
    ELSE ReturnVal(None)

\* Command.process, one iteration of its loop on the group input_args with
\* the groups pending behind it, as in CmdCallbackStep and CmdGroupStep
\* below: whether the loop ends here, the outcome so far and the deque
\* that is left.
Command_process_iteration(ps, self, input_args, pending) ==
    IF /\ Len(input_args) > 0
       /\ \E pair \in global_callbacks_map : pair[1] = input_args[1]
    THEN The({[done |-> FALSE, step |-> Step(ps, Return(<<>>)),
               deque |-> IF args_return # None
                         THEN appendleft(pending, args_return.items)
                         ELSE pending] :
              args_return \in {Callback_execute(
                  global_callbacks[(CHOOSE pair \in global_callbacks_map :
                                        pair[1] = input_args[1])[2]], input_args).val}})
    ELSE The({IF r.out.tag = "raise"
              THEN [done |-> TRUE, step |-> r, deque |-> pending]
              ELSE IF Len(r.out.ret) = 0
              THEN [done |-> FALSE, step |-> r, deque |-> pending]
              ELSE IF Len(r.out.ret) = Len(input_args)
              THEN [done |-> TRUE,
                    step |-> Step(r.ps, Return(undeque(appendleft(pending, r.out.ret)))),
                    deque |-> pending]
              ELSE [done |-> FALSE, step |-> r, deque |-> appendleft(pending, r.out.ret)] :
              r \in {ParameterGroup_process(ps, self, input_args)}})

\* Command.process, the whole loop
RECURSIVE Command_process_loop(_, _, _)
Command_process_loop(ps, self, deque) ==
    IF deque = <<>> THEN Step(ps, Return(<<>>))
    ELSE The({IF it.done THEN it.step
              ELSE Command_process_loop(it.step.ps, self, it.deque) :
              it \in {Command_process_iteration(ps, self, Head(deque), Tail(deque))}})

Command_process(ps, self, args) == Command_process_loop(ps, self, split_and_expand(args))

\* What a step of process_all_args leaves: the binding state, the outcome
\* (tag "none" while the loop goes on), the Command made ("" when none
\* was) and the tokens still to bind.
RunStep(ps, out, subcommand, args, left) ==
    [ps |-> ps, out |-> out, subcommand |-> subcommand, args |-> args, left |-> left]

\* A plausible slip: the subcommand is made before the name is looked up
\* and the group is executed whatever the name.
invoke_subcommand_eager(ps, self, left) ==
    The({IF res_obj.tag = "raise" THEN RunStep(ps, res_obj, "", left, left)
         ELSE IF \E pair \in subcommands[self] : pair[1] = left[1]
         THEN RunStep(ps, [NoRead EXCEPT !.invoked = res_obj.invoked],
                      (CHOOSE pair \in subcommands[self] : pair[1] = left[1])[2],
                      Tail(left), left)
         ELSE RunStep(ps, Raised(Exc("UnknownCommandError", <<>>, <<>>), res_obj.invoked),
                      "", left, left) :
         res_obj \in {ParameterGroup_value(ps, self)}})

\* A plausible slip: the child is made of the named attribute, and the
\* Command that goes on is the one that was asked.
invoke_subcommand_keep_parent(ps, self, left) ==
    IF \E pair \in subcommands[self] : pair[1] = left[1]
    THEN The({IF res_obj.tag = "raise" THEN RunStep(ps, res_obj, "", left, left)
              ELSE RunStep(ps, [NoRead EXCEPT !.invoked = res_obj.invoked],
                           self, Tail(left), left) :
              res_obj \in {ParameterGroup_value(ps, self)}})
    ELSE RunStep(ps, Raised(Exc("UnknownCommandError", <<>>, <<>>), <<>>), "", left, left)

\* A plausible slip: the name of the subcommand stays in front of the
\* tokens that are handed on (input_args[0:]).
invoke_subcommand_keep_name(ps, self, left) ==
    IF \E pair \in subcommands[self] : pair[1] = left[1]
    THEN The({IF res_obj.tag = "raise" THEN RunStep(ps, res_obj, "", left, left)
              ELSE IF Command_attrs_post_init(subcmd).tag = "raise"
              THEN RunStep(ps, Raised(Exc(Command_attrs_post_init(subcmd).exc, <<>>, <<>>),
                                      res_obj.invoked), "", left, left)
              ELSE RunStep(ps, [NoRead EXCEPT !.invoked = res_obj.invoked],
                           subcmd, left, left) :
              res_obj \in {ParameterGroup_value(ps, self)},
              subcmd \in {(CHOOSE pair \in subcommands[self] : pair[1] = left[1])[2]}})
    ELSE RunStep(ps, Raised(Exc("UnknownCommandError", <<>>, <<>>), <<>>), "", left, left)

\* cmd = cmd.invoke_subcommand(input_args[0]); input_args = input_args[1:]
\* Command.invoke_subcommand: the group is executed, the Command of the
\* attribute is made (from_obj, with its __attrs_post_init__).  The
\* objects of the schema are instances, never functions.
invoke_subcommand(ps, self, left) ==
    IF \E pair \in subcommands[self] : pair[1] = left[1]
    THEN The({IF res_obj.tag = "raise" THEN RunStep(ps, res_obj, "", left, left)
              ELSE IF Command_attrs_post_init(subcmd).tag = "raise"
              THEN RunStep(ps, Raised(Exc(Command_attrs_post_init(subcmd).exc, <<>>, <<>>),
                                      res_obj.invoked), "", left, left)
              ELSE RunStep(ps, [NoRead EXCEPT !.invoked = res_obj.invoked],
                           subcmd, Tail(left), left) :
              res_obj \in {ParameterGroup_value(ps, self)},
              subcmd \in {(CHOOSE pair \in subcommands[self] : pair[1] = left[1])[2]}})
    ELSE RunStep(ps, Raised(Exc("UnknownCommandError", <<>>, <<>>), <<>>), "", left, left)

\* A plausible slip: the tokens after the name of the subcommand are
\* handed on in reverse.
process_all_args_iteration_reversed(ps, self, args, r) ==
    IF r.out.tag = "raise"
    THEN RunStep(r.ps, Raised(Exc(r.out.exc, <<>>, <<>>), <<>>), "", args, <<>>)
    ELSE IF Len(r.out.ret) > 0
    THEN The({[s EXCEPT !.args = [i \in 1..Len(s.args) |-> s.args[Len(s.args) + 1 - i]]] :
              s \in {invoke_subcommand(r.ps, self, r.out.ret)}})
    ELSE RunStep(r.ps, ParameterGroup_value(r.ps, self), "", <<>>, <<>>)

\* A plausible slip: the group is executed before its tokens are bound, so
\* that its callable has run when the binding raises.
process_all_args_iteration_value_first(ps, self, args, r) ==
    IF r.out.tag = "raise"
    THEN RunStep(r.ps, Raised(Exc(r.out.exc, <<>>, <<>>),
                              ParameterGroup_value(ps, self).invoked),
                 "", args, <<>>)
    ELSE IF Len(r.out.ret) > 0
    THEN invoke_subcommand(r.ps, self, r.out.ret)
    ELSE RunStep(r.ps, ParameterGroup_value(r.ps, self), "", <<>>, <<>>)

\* process_all_args of command.py, one iteration of its loop (274-279);
\* r is what input_args = cmd.process(input_args) left, Command_process of
\* the three other arguments
process_all_args_iteration(ps, self, args, r) ==
    IF r.out.tag = "raise"
    THEN RunStep(r.ps, Raised(Exc(r.out.exc, <<>>, <<>>), <<>>), "", args, <<>>)
    ELSE IF Len(r.out.ret) > 0
    THEN invoke_subcommand(r.ps, self, r.out.ret)
    ELSE RunStep(r.ps, ParameterGroup_value(r.ps, self), "", <<>>, <<>>)

\* try: return cmd.param_group.value except ParameterError as e: raise
\* CommandError(...) from e
value_or_CommandError(ps, self) ==
    The({IF v.tag = "raise" /\ IsParameterError(v.exc)
         THEN Raised(Exc("CommandError", <<v.exc>>, <<>>), v.invoked)
         ELSE v : v \in {ParameterGroup_value(ps, self)}})

\* process_all_args of run.py, one iteration of its loop (24-48), under a
\* Config without event callbacks.  Command.get_subcommand is
\* invoke_subcommand under its later name.  processed is what cmd.process
\* leaves of the arguments, Command_process of the three other arguments;
\* the call is made only when there are tokens.
run_process_all_args_iteration(ps, self, args, processed) ==
    The({IF r.out.tag = "raise"
         THEN RunStep(r.ps, Raised(Exc(r.out.exc, <<>>, <<>>), <<>>), "", args, <<>>)
         ELSE IF Len(r.out.ret) > 0
         THEN invoke_subcommand(r.ps, self, r.out.ret)
         ELSE RunStep(r.ps, value_or_CommandError(r.ps, self), "", <<>>, <<>>) :
         r \in {IF Len(args) > 0 THEN processed ELSE Step(ps, Return(args))}})

(***************************************************************************)
(* The state machines' variables at rest                                   *)
(***************************************************************************)

\* The binding state of the tree, as the operations take it.
PS == [leaves |-> leaves, bound |-> pbound, num_bound |-> num_bound]

NoStep == [n |-> 0, input_args |-> <<>>, args_return |-> <<>>, pending |-> <<>>, cb |-> FALSE]

NoTreeCall == [op |-> "none", target |-> "", args |-> <<>>, out |-> NoCall]

TreeFresh ==
    /\ leaves = FreshLeaves
    /\ pbound = FreshBound
    /\ num_bound = FreshNumBound
    /\ lastCall = NoTreeCall
    /\ calls = 0

NoBaseCall == [op |-> "none", target |-> "", out |-> NoCall, reads |-> 0]

BaseIdle ==
    /\ bleaves = BaseFresh
    /\ blast = NoBaseCall
    /\ bcalls = 0

\* The prefix fields, as the operations take them.
PTS == [prefix_parent |-> prefix_parent, prefix_this |-> prefix_this,
        opt_prefix |-> opt_prefix]

NoPfxCall == [op |-> "none", target |-> "", val |-> <<>>]

PfxIdle ==
    /\ prefix_parent = PfxConstructed.prefix_parent
    /\ prefix_this = PfxConstructed.prefix_this
    /\ opt_prefix = PfxConstructed.opt_prefix
    /\ pfxLast = NoPfxCall

NoPrevCmd == [id \in CommandIds |-> ""]

RunIdle ==
    /\ top = ""
    /\ driver = ""
    /\ cmd = ""
    /\ all_args = <<>>
    /\ prev_cmd = NoPrevCmd
    /\ created = <<>>
    /\ executed = <<>>
    /\ runPc = "idle"
    /\ runOut = NoRead
    /\ leftover = <<>>

SchemaDefaults == [id \in AllLeafIds |-> Schema[id].default_value]

NoDefaultDefs == [opts |-> <<>>, args |-> <<>>]

DefIdle ==
    /\ default_defs = NoDefaultDefs
    /\ pudb_installed = FALSE
    /\ default_values = SchemaDefaults
    /\ cmd_cpy = Fresh
    /\ def_pc = "idle"
    /\ def_out = NoCall

StoreIdle ==
    /\ _converters_with_priority = <<>>
    /\ store_pc = "idle"
    /\ requested_type = NoType
    /\ got_converter = NoLookup
    /\ convert_args = <<>>
    /\ convert_out = NoCall
    /\ num_added = 0

CmdIdle ==
    /\ argv = <<>>
    /\ input_args_deque = <<>>
    /\ cmdPc = "idle"
    /\ cmdOut = NoCall
    /\ lastStep = NoStep

(***************************************************************************)
(* The tokenizer as a one-call state machine                               *)
(***************************************************************************)

MaxArgs == 3

\* "", "-", "-v", "-vf", "--", "--t", "t"
TokUniverse ==
    { <<>>, <<"-">>, <<"-", "v">>, <<"-", "v", "f">>,
      <<"-", "-">>, <<"-", "-", "t">>, <<"t">> }

RECURSIVE SeqsUpTo(_, _)
SeqsUpTo(S, n) ==
    IF n = 0 THEN {<<>>}
    ELSE LET shorter == SeqsUpTo(S, n - 1)
         IN  shorter \cup {Append(s, x) : s \in {t \in shorter : Len(t) = n - 1}, x \in S}

TokIdle ==
    /\ tokArgs = <<>>
    /\ tokPc = "idle"
    /\ tokGroups = <<>>

TokInit ==
    /\ tokArgs \in SeqsUpTo(TokUniverse, MaxArgs)
    /\ tokPc = "input"
    /\ tokGroups = <<>>
    /\ ProcIdle
    /\ TreeFresh
    /\ CmdIdle
    /\ BaseIdle
    /\ PfxIdle
    /\ RunIdle
    /\ StoreIdle
    /\ DefIdle

Tokenize ==
    /\ tokPc = "input"
    /\ tokGroups' = split_and_expand(tokArgs)
    /\ tokPc' = "done"
    /\ UNCHANGED <<tokArgs, procVars, treeVars, cmdVars, baseVars, pfxVars, runVars, storeVars, defVars>>

TokNext == Tokenize

SpecTok == TokInit /\ [][TokNext]_vars

ProcInit ==
    /\ proc \in Processors
    /\ bound_args = <<>>
    /\ procArgs = <<>>
    /\ procOut = NoCall
    /\ procCalls = 0
    /\ TokIdle
    /\ TreeFresh
    /\ CmdIdle
    /\ BaseIdle
    /\ PfxIdle
    /\ RunIdle
    /\ StoreIdle
    /\ DefIdle

\* processor.bind(args)
Bind(args) ==
    /\ procCalls < MaxProcCalls
    /\ LET r == TriggerProcessor_bind(proc, bound_args, args)
       IN  /\ procOut' = r.out
           /\ bound_args' = r.bound_args
    /\ procArgs' = args
    /\ procCalls' = procCalls + 1
    /\ UNCHANGED <<proc, tokVars, treeVars, cmdVars, baseVars, pfxVars, runVars, storeVars, defVars>>

ProcNext == \E args \in SeqsUpTo(ProcTokens, MaxProcArgs) : Bind(args)

SpecProc == ProcInit /\ [][ProcNext]_vars

(***************************************************************************)
(* The parameter tree, called as the tests call it: process on the root    *)
(* group or on one Option, and reads of .value                             *)
(***************************************************************************)

MaxCalls == 1

MaxCallArgs == 2

\* "--g-a", "--a", "t", "z"
TreeTokens == {T_ga, T_a, <<"t">>, <<"z">>}

OptionIds == {id \in LeafIds : Schema[id].type = "Option"}

TreeInit ==
    /\ TreeFresh
    /\ CmdIdle
    /\ TokIdle
    /\ ProcIdle
    /\ BaseIdle
    /\ PfxIdle
    /\ RunIdle
    /\ StoreIdle
    /\ DefIdle

Assign(ps) ==
    /\ leaves' = ps.leaves
    /\ pbound' = ps.bound
    /\ num_bound' = ps.num_bound

\* param_group.process(args)
GroupProcess(args) ==
    /\ cmdPc = "idle"
    /\ calls < MaxCalls
    /\ \E r \in {ParameterGroup_process(PS, "root", args)} :
           /\ Assign(r.ps)
           /\ lastCall' = [op |-> "process", target |-> "root", args |-> args, out |-> r.out]
    /\ calls' = calls + 1
    /\ UNCHANGED <<tokVars, procVars, cmdVars, baseVars, pfxVars, runVars, storeVars, defVars>>

\* opt.process(args)
OptionProcess(id, args) ==
    /\ cmdPc = "idle"
    /\ calls < MaxCalls
    /\ \E r \in {Option_process(PS, id, args)} :
           /\ Assign(r.ps)
           /\ lastCall' = [op |-> "process", target |-> id, args |-> args, out |-> r.out]
    /\ calls' = calls + 1
    /\ UNCHANGED <<tokVars, procVars, cmdVars, baseVars, pfxVars, runVars, storeVars, defVars>>

\* param.value
ReadValue(id) ==
    /\ cmdPc \in {"idle", "returned"}
    /\ lastCall' = [op |-> "value", target |-> id, args |-> <<>>, out |-> value(PS, id)]
    /\ UNCHANGED <<leaves, pbound, num_bound, calls, tokVars, procVars, cmdVars, baseVars, pfxVars, runVars, storeVars, defVars>>

TreeNext ==
    \/ \E args \in SeqsUpTo(TreeTokens, MaxCallArgs) : GroupProcess(args)
    \/ \E id \in OptionIds, args \in SeqsUpTo(TreeTokens, MaxCallArgs) : OptionProcess(id, args)
    \/ \E id \in LeafIds : ReadValue(id)

SpecTree == TreeInit /\ [][TreeNext]_vars

(***************************************************************************)
(* One Option processed again and again, as the tests on repeated          *)
(* triggers do: opt.process([trigger, *values]) several times, with reads  *)
(* of .value in between                                                    *)
(***************************************************************************)

MaxOptCalls == 2

\* "t", "f"
OptValues == {<<"t">>, <<"f">>}

\* The triggers an Option was declared with, before any prefix.
DeclaredTriggers(id) ==
    UNION {Range(Schema[id].processors[k].triggers) : k \in 1..Len(Schema[id].processors)}

\* The first tokens tried on an Option: its declared triggers, its final
\* triggers and one trigger ("--0") that is nobody's.
OptTriggers(id) == DeclaredTriggers(id) \cup final_triggers(id) \cup {T_0}

\* The value tokens tried after a trigger: up to one more than the
\* processors of the Option take, so that a token can be left over.
OptValueLists(id) ==
    LET p == Schema[id].processors[1]
    IN  SeqsUpTo(OptValues,
                 IF p.class = "Constant" THEN 1 ELSE num_req_args(p.type_converter) + 1)

\* opt.process([trigger] + values)
OptCall(id, trigger, values) ==
    /\ cmdPc = "idle"
    /\ calls < MaxOptCalls
    /\ \E r \in {Option_process(PS, id, <<trigger>> \o values)} :
           /\ Assign(r.ps)
           /\ lastCall' = [op |-> "process", target |-> id,
                           args |-> <<trigger>> \o values, out |-> r.out]
    /\ calls' = calls + 1
    /\ UNCHANGED <<tokVars, procVars, cmdVars, baseVars, pfxVars, runVars, storeVars, defVars>>

OptNext ==
    \/ \E id \in OptionIds : \E trigger \in OptTriggers(id) :
          \E values \in OptValueLists(id) : OptCall(id, trigger, values)
    \/ \E id \in OptionIds : ReadValue(id)

SpecOpt == TreeInit /\ [][OptNext]_vars

(***************************************************************************)
(* A group built and then handed token groups: the tree d, whose triggers  *)
(* collide, or the tree h of two Arguments                                 *)
(***************************************************************************)

MaxGrpCalls == 3

MaxGrpArgs == 2

\* "--g-a", "t", "f"
GrpTokens == {T_ga, <<"t">>, <<"f">>}

GrpRoots == {"d", "h"}

\* The root of the tree a node is in.
RECURSIVE RootOf(_)
RootOf(id) == IF Parent(id) = "" THEN id ELSE RootOf(Parent(id))

\* ParameterGroup(...)
Construct(gid) ==
    /\ cmdPc = "idle"
    /\ lastCall.op = "none"
    /\ lastCall' = [op |-> "construct", target |-> gid, args |-> <<>>,
                    out |-> ParameterGroup_attrs_post_init(gid)]
    /\ UNCHANGED <<leaves, pbound, num_bound, calls, tokVars, procVars, cmdVars, baseVars, pfxVars, runVars, storeVars, defVars>>

\* group.process(args), on the group that was built
GrpProcess(args) ==
    /\ cmdPc = "idle"
    /\ lastCall.op # "none"
    /\ lastCall.out.tag # "raise" \/ lastCall.op # "construct"
    /\ calls < MaxGrpCalls
    /\ \E r \in {ParameterGroup_process(PS, RootOf(lastCall.target), args)} :
           /\ Assign(r.ps)
           /\ lastCall' = [op |-> "process", target |-> RootOf(lastCall.target),
                           args |-> args, out |-> r.out]
    /\ calls' = calls + 1
    /\ UNCHANGED <<tokVars, procVars, cmdVars, baseVars, pfxVars, runVars, storeVars, defVars>>

\* param.value, on a leaf of the group that was built
GrpRead(id) ==
    /\ lastCall.op # "none"
    /\ RootOf(id) = RootOf(lastCall.target)
    /\ ReadValue(id)

GrpNext ==
    \/ \E gid \in GrpRoots : Construct(gid)
    \/ \E args \in SeqsUpTo(GrpTokens, MaxGrpArgs) : GrpProcess(args)
    \/ \E id \in AllLeafIds : GrpRead(id)

SpecGrp == TreeInit /\ [][GrpNext]_vars

(***************************************************************************)
(* Reads of ParameterGroup.value between process calls, on the tree w      *)
(***************************************************************************)

MaxValCalls == 3

\* "--x", "--b", "--g-a", "--g-b"
ValTriggers == {T_x, T_b, T_ga, T_gb}

\* "t", "f"
ValValues == {<<"t">>, <<"f">>}

\* The token groups: a trigger and the value tokens after it, as many as
\* the converter of the Options takes or fewer.
ValArgs ==
    {<<trigger>> \o values :
        trigger \in ValTriggers, values \in SeqsUpTo(ValValues, num_req_args("bool"))}

\* w.process(args)
ValProcess(args) ==
    /\ cmdPc = "idle"
    /\ calls < MaxValCalls
    /\ \E r \in {ParameterGroup_process(PS, "w", args)} :
           /\ Assign(r.ps)
           /\ lastCall' = [op |-> "process", target |-> "w", args |-> args, out |-> r.out]
    /\ calls' = calls + 1
    /\ UNCHANGED <<tokVars, procVars, cmdVars, baseVars, pfxVars, runVars, storeVars, defVars>>

\* w.value or n.value
ValRead(gid) ==
    /\ cmdPc = "idle"
    /\ lastCall' = [op |-> "value", target |-> gid, args |-> <<>>,
                    out |-> ParameterGroup_value(PS, gid)]
    /\ UNCHANGED <<leaves, pbound, num_bound, calls, tokVars, procVars, cmdVars, baseVars, pfxVars, runVars, storeVars, defVars>>

ValNext ==
    \/ \E args \in ValArgs : ValProcess(args)
    \/ \E gid \in {"w", "n"} : ValRead(gid)

SpecVal == TreeInit /\ [][ValNext]_vars

(***************************************************************************)
(* The prefixes of a tree, assigned to in any order                        *)
(***************************************************************************)

PfxInit ==
    /\ PfxIdle
    /\ RunIdle
    /\ StoreIdle
    /\ DefIdle
    /\ TreeFresh
    /\ CmdIdle
    /\ TokIdle
    /\ ProcIdle
    /\ BaseIdle

AssignPfx(ts) ==
    /\ prefix_parent' = ts.prefix_parent
    /\ prefix_this' = ts.prefix_this
    /\ opt_prefix' = ts.opt_prefix

\* group.prefix_this = v
SetPrefixThis(g, v) ==
    /\ \E ts \in {set_prefix_this(PTS, g, v)} : AssignPfx(ts)
    /\ pfxLast' = [op |-> "prefix_this", target |-> g, val |-> v]
    /\ UNCHANGED <<tokVars, procVars, treeVars, cmdVars, baseVars, runVars, storeVars, defVars>>

\* group.prefix_parent = v
SetPrefixParent(g, v) ==
    /\ \E ts \in {set_prefix_parent(PTS, g, v)} : AssignPfx(ts)
    /\ pfxLast' = [op |-> "prefix_parent", target |-> g, val |-> v]
    /\ UNCHANGED <<tokVars, procVars, treeVars, cmdVars, baseVars, runVars, storeVars, defVars>>

PfxNext ==
    \/ \E g \in PfxGroupIds, v \in PfxValues : SetPrefixThis(g, v)
    \/ \E g \in PfxGroupIds, v \in PfxValues : SetPrefixParent(g, v)

SpecPfx == PfxInit /\ [][PfxNext]_vars

(***************************************************************************)
(* The leaves of parameters/base.py, bound and read one by one             *)
(***************************************************************************)

MaxBaseCalls == 2

MaxBaseArgs == 2

\* "--x", "--b", "t", "z"
BaseTokens == {T_x, T_b, <<"t">>, <<"z">>}

\* Reads are counted up to the second of a row.
MaxReads == 2

BaseInit ==
    /\ BaseIdle
    /\ PfxIdle
    /\ RunIdle
    /\ StoreIdle
    /\ DefIdle
    /\ TreeFresh
    /\ CmdIdle
    /\ TokIdle
    /\ ProcIdle

\* param.bind(args)
BaseBind(id, args) ==
    /\ bcalls < MaxBaseCalls
    /\ \E r \in {Parameter_bind(bleaves, id, args)} :
           /\ bleaves' = r.leaves
           /\ blast' = [op |-> "bind", target |-> id, out |-> r.out, reads |-> 0]
    /\ bcalls' = bcalls + 1
    /\ UNCHANGED <<tokVars, procVars, treeVars, cmdVars, pfxVars, runVars, storeVars, defVars>>

\* param.value
BaseRead(id) ==
    /\ \E r \in {Parameter_value(bleaves, id)} :
           /\ bleaves' = r.leaves
           /\ blast' = [op |-> "value", target |-> id, out |-> r.out,
                        reads |-> IF blast.op = "value" /\ blast.target = id
                                  THEN Min(blast.reads + 1, MaxReads) ELSE 1]
    /\ UNCHANGED <<bcalls, tokVars, procVars, treeVars, cmdVars, pfxVars, runVars, storeVars, defVars>>

BaseNext ==
    \/ \E id \in BaseIds, args \in SeqsUpTo(BaseTokens, MaxBaseArgs) : BaseBind(id, args)
    \/ \E id \in BaseIds : BaseRead(id)

SpecBase == BaseInit /\ [][BaseNext]_vars

(***************************************************************************)
(* Command.process, one action per iteration of its loop                   *)
(***************************************************************************)

MaxArgv == 3

\* "--x", "-xb", "--n", "--g-a", "--a", "t", "z", "--0"
CmdTokens == {T_x, <<"-", "x", "b">>, T_n, T_ga, T_a, <<"t">>, <<"z">>, T_0}

CmdInit ==
    /\ argv \in SeqsUpTo(CmdTokens, MaxArgv)
    /\ input_args_deque = <<>>
    /\ cmdPc = "start"
    /\ cmdOut = NoCall
    /\ lastStep = NoStep
    /\ TreeFresh
    /\ TokIdle
    /\ ProcIdle
    /\ BaseIdle
    /\ PfxIdle
    /\ RunIdle
    /\ StoreIdle
    /\ DefIdle

\* input_args_deque = split_and_expand(args)
CmdStart ==
    /\ cmdPc = "start"
    /\ input_args_deque' = split_and_expand(argv)
    /\ cmdPc' = "loop"
    /\ UNCHANGED <<argv, cmdOut, lastStep, treeVars, tokVars, procVars, baseVars, pfxVars, runVars, storeVars, defVars>>

\* An iteration that hands the group to a global callback.
CmdCallbackStep ==
    /\ cmdPc = "loop"
    /\ input_args_deque # <<>>
    /\ \E input_args \in {Head(input_args_deque)}, pending \in {Tail(input_args_deque)} :
          /\ Len(input_args) > 0
          /\ \E pair \in global_callbacks_map : pair[1] = input_args[1]
          /\ \E cb \in {global_callbacks[(CHOOSE pair \in global_callbacks_map :
                                              pair[1] = input_args[1])[2]]} :
             \E args_return \in {Callback_execute(cb, input_args).val} :
                /\ input_args_deque' =
                       IF args_return # None
                       THEN appendleft(pending, args_return.items)
                       ELSE pending
                /\ lastStep' = [n |-> lastStep.n + 1,
                                input_args |-> input_args,
                                args_return |-> IF args_return # None
                                                THEN args_return.items ELSE <<>>,
                                pending |-> pending,
                                cb |-> TRUE]
    /\ UNCHANGED <<argv, cmdPc, cmdOut, treeVars, tokVars, procVars, baseVars, pfxVars, runVars, storeVars, defVars>>

\* An iteration that hands the group to the parameter group.
CmdGroupStep ==
    /\ cmdPc = "loop"
    /\ input_args_deque # <<>>
    /\ \E input_args \in {Head(input_args_deque)}, pending \in {Tail(input_args_deque)} :
          /\ ~(Len(input_args) > 0
                 /\ \E pair \in global_callbacks_map : pair[1] = input_args[1])
          /\ \E r \in {ParameterGroup_process(PS, "root", input_args)} :
                /\ Assign(r.ps)
                /\ IF r.out.tag = "raise"
                   THEN /\ cmdPc' = "raised"
                        /\ cmdOut' = r.out
                        /\ input_args_deque' = pending
                        /\ lastStep' = [n |-> lastStep.n + 1, input_args |-> input_args,
                                        args_return |-> <<>>, pending |-> pending,
                                        cb |-> FALSE]
                   ELSE \E args_return \in {r.out.ret} :
                        /\ input_args_deque' =
                               IF Len(args_return) > 0
                               THEN appendleft(pending, args_return)
                               ELSE pending
                        /\ lastStep' = [n |-> lastStep.n + 1, input_args |-> input_args,
                                        args_return |-> args_return, pending |-> pending,
                                        cb |-> FALSE]
                        /\ IF Len(args_return) > 0 /\ Len(args_return) = Len(input_args)
                           THEN /\ cmdPc' = "returned"
                                /\ cmdOut' = Return(undeque(appendleft(pending, args_return)))
                           ELSE UNCHANGED <<cmdPc, cmdOut>>
    /\ UNCHANGED <<argv, lastCall, calls, tokVars, procVars, baseVars, pfxVars, runVars, storeVars, defVars>>

\* The loop ends on the empty deque: return []
CmdFinish ==
    /\ cmdPc = "loop"
    /\ input_args_deque = <<>>
    /\ cmdPc' = "returned"
    /\ cmdOut' = Return(<<>>)
    /\ UNCHANGED <<argv, input_args_deque, lastStep, treeVars, tokVars, procVars, baseVars, pfxVars, runVars, storeVars, defVars>>

Next ==
    \/ CmdStart
    \/ CmdCallbackStep
    \/ CmdGroupStep
    \/ CmdFinish
    \/ \E id \in LeafIds : ReadValue(id)

Spec == CmdInit /\ [][Next]_vars

(***************************************************************************)
(* run: a Command is made of an object and process_all_args is run on it,  *)
(* one action per iteration of its loop                                    *)
(***************************************************************************)

MaxRunArgs == 4

\* "--x", "--a", "m", "k", "t", "z"
RunTokens == {T_x, T_a, N_m, N_k, N_u, <<"t">>, <<"z">>}

\* The objects run is called on: the class C and the function k.
RunRoots == {"c", "k"}

RunInit ==
    /\ top \in RunRoots
    /\ driver \in {"command.py", "run.py"}
    /\ all_args \in SeqsUpTo(RunTokens, MaxRunArgs)
    /\ cmd = ""
    /\ prev_cmd = NoPrevCmd
    /\ created = <<>>
    /\ executed = <<>>
    /\ runPc = "start"
    /\ runOut = NoRead
    /\ leftover = <<>>
    /\ TreeFresh
    /\ CmdIdle
    /\ TokIdle
    /\ ProcIdle
    /\ BaseIdle
    /\ PfxIdle
    /\ StoreIdle
    /\ DefIdle

\* cmd = Command.from_obj(obj, name=name)
RunStart ==
    /\ runPc = "start"
    /\ IF Command_attrs_post_init(top).tag = "raise"
       THEN /\ runPc' = "raised"
            /\ runOut' = Raised(Exc(Command_attrs_post_init(top).exc, <<>>, <<>>), <<>>)
            /\ UNCHANGED <<cmd, created>>
       ELSE /\ runPc' = "loop"
            /\ cmd' = top
            /\ created' = Append(created, top)
            /\ UNCHANGED runOut
    /\ UNCHANGED <<top, driver, all_args, prev_cmd, executed, leftover>>
    /\ UNCHANGED <<tokVars, procVars, treeVars, cmdVars, baseVars, pfxVars, storeVars, defVars>>

\* What an iteration leaves is taken over.
RunTake(s) ==
    /\ Assign(s.ps)
    /\ executed' = executed \o s.out.invoked
    /\ leftover' = s.left
    /\ all_args' = s.args
    /\ IF s.out.tag = "none"
       THEN /\ cmd' = s.subcommand
            /\ prev_cmd' = [prev_cmd EXCEPT ![s.subcommand] = cmd]
            /\ created' = Append(created, s.subcommand)
            /\ UNCHANGED <<runPc, runOut>>
       ELSE /\ runPc' = IF s.out.tag = "raise" THEN "raised" ELSE "done"
            /\ runOut' = s.out
            /\ UNCHANGED <<cmd, prev_cmd, created>>
    /\ UNCHANGED <<top, driver, lastCall, calls>>
    /\ UNCHANGED <<tokVars, procVars, cmdVars, baseVars, pfxVars, storeVars, defVars>>

\* command.py: while len(input_args) > 0: one iteration
ProcessAllArgsIteration(processed) ==
    /\ driver = "command.py"
    /\ Len(all_args) > 0
    /\ \E s \in {process_all_args_iteration(PS, cmd, all_args, processed)} : RunTake(s)

\* command.py: the loop ends when no token is left and the function
\* returns None; nothing was processed, nothing is left over
ProcessAllArgsExit ==
    /\ runPc = "loop"
    /\ driver = "command.py"
    /\ Len(all_args) = 0
    /\ runPc' = "done"
    /\ runOut' = Returned(None, <<>>)
    /\ leftover' = all_args
    /\ UNCHANGED <<top, driver, cmd, all_args, prev_cmd, created, executed>>
    /\ UNCHANGED <<tokVars, procVars, treeVars, cmdVars, baseVars, pfxVars, storeVars, defVars>>

\* run.py: while True: one iteration
RunProcessAllArgsIteration(processed) ==
    /\ driver = "run.py"
    /\ \E s \in {run_process_all_args_iteration(PS, cmd, all_args, processed)} : RunTake(s)

\* The call of cmd.process that both loops make is computed once for the
\* iteration.
RunNext ==
    \/ RunStart
    \/ ProcessAllArgsExit
    \/ /\ runPc = "loop"
       /\ \E processed \in {Command_process(PS, cmd, all_args)} :
             \/ ProcessAllArgsIteration(processed)
             \/ RunProcessAllArgsIteration(processed)

SpecRun == RunInit /\ [][RunNext]_vars

(***************************************************************************)
(* The converter store as a state machine: a store is made, converter      *)
(* classes are added to it, a converter is asked for and called once       *)
(***************************************************************************)

MaxStoreAdds == 2

MaxStoreArgs == 3

\* "1", "2", "a", "t"
StoreTokens == {<<"1">>, <<"2">>, <<"a">>, <<"t">>}

StoreClasses == {"IntCLIArgConverter", "EnumCLIArgConverter"}

StorePriorities == {5, 11}

\* int, str, bool, float, Path, complex, the Enum, Literal["a", "b"], List,
\* List[int], List[List[int]], List[Tuple[int, str]], Union[test, int],
\* Union[int, test], Union[int, Tuple[int, str]], Tuple[int, str],
\* Tuple[int, List[str]]
StoreTypes ==
    { t_int, t_str, t_bool, t_float, t_Path, t_complex, enum_test, t_Literal,
      List(<<>>), List(<<t_int>>), List(<<List(<<t_int>>)>>),
      List(<<Tuple(<<t_int, t_str>>)>>),
      Union(<<enum_test, t_int>>), Union(<<t_int, enum_test>>),
      Union(<<t_int, Tuple(<<t_int, t_str>>)>>),
      Tuple(<<t_int, t_str>>), Tuple(<<t_int, List(<<t_str>>)>>) }

StoreInit ==
    /\ \E add_defaults \in BOOLEAN :
          _converters_with_priority = CLIArgConverterStore_init(add_defaults)
    /\ store_pc = "open"
    /\ requested_type = NoType
    /\ got_converter = NoLookup
    /\ convert_args = <<>>
    /\ convert_out = NoCall
    /\ num_added = 0
    /\ TreeFresh
    /\ CmdIdle
    /\ TokIdle
    /\ ProcIdle
    /\ BaseIdle
    /\ PfxIdle
    /\ RunIdle
    /\ DefIdle

\* store.add_converter(converter, priority)
AddConverter(converter_class, priority) ==
    /\ store_pc = "open"
    /\ num_added < MaxStoreAdds
    /\ _converters_with_priority'
          = add_converter(_converters_with_priority, converter_class, priority)
    /\ num_added' = num_added + 1
    /\ UNCHANGED <<store_pc, requested_type, got_converter, convert_args, convert_out>>
    /\ UNCHANGED <<tokVars, procVars, treeVars, cmdVars, baseVars, pfxVars, runVars, defVars>>

\* store.get_converter(target_type)
GetConverter(target_type) ==
    /\ store_pc = "open"
    /\ requested_type' = target_type
    /\ got_converter' = get_converter(_converters_with_priority, target_type)
    /\ store_pc' = IF got_converter'.tag = "raise" THEN "raised" ELSE "built"
    /\ UNCHANGED <<_converters_with_priority, convert_args, convert_out, num_added>>
    /\ UNCHANGED <<tokVars, procVars, treeVars, cmdVars, baseVars, pfxVars, runVars, defVars>>

\* converter.convert(args) on the converter the store returned
Convert(args) ==
    /\ store_pc = "built"
    /\ convert_args' = args
    /\ convert_out' = CLIArgConverter_convert(got_converter.converter, args)
    /\ store_pc' = "converted"
    /\ UNCHANGED <<_converters_with_priority, requested_type, got_converter, num_added>>
    /\ UNCHANGED <<tokVars, procVars, treeVars, cmdVars, baseVars, pfxVars, runVars, defVars>>

StoreNext ==
    \/ \E converter_class \in StoreClasses, priority \in StorePriorities :
          AddConverter(converter_class, priority)
    \/ \E target_type \in StoreTypes : GetConverter(target_type)
    \/ \E args \in SeqsUpTo(StoreTokens, MaxStoreArgs) : Convert(args)

SpecStore == StoreInit /\ [][StoreNext]_vars

(***************************************************************************)
(* run with the delimiter among the arguments, each step of the loop taken *)
(* as long as one is possible                                              *)
(***************************************************************************)

\* "--0" is the trigger of the global callback of every Command.
TermTokens == RunTokens \cup {T_0}

TermInit ==
    /\ top \in RunRoots
    /\ driver \in {"command.py", "run.py"}
    /\ all_args \in SeqsUpTo(TermTokens, MaxRunArgs)
    /\ cmd = ""
    /\ prev_cmd = NoPrevCmd
    /\ created = <<>>
    /\ executed = <<>>
    /\ runPc = "start"
    /\ runOut = NoRead
    /\ leftover = <<>>
    /\ TreeFresh
    /\ CmdIdle
    /\ TokIdle
    /\ ProcIdle
    /\ BaseIdle
    /\ PfxIdle
    /\ StoreIdle
    /\ DefIdle

\* A step of run while it has not returned or raised: it goes on in the
\* loop, with or without one more Command made, or leaves it.  Such a step
\* is possible exactly when runPc is "start" or "loop", where RunNext can
\* always take one, and every step of RunNext is one and changes runPc or
\* created.
Advance ==
    /\ runPc \in {"start", "loop"}
    /\ runPc' \in {"loop", "done", "raised"}
    /\ created' \in {created} \cup {Append(created, id) : id \in CommandIds}

\* The interpreter goes on executing the statement it is at.
SpecTerm == TermInit /\ [][RunNext]_vars /\ WF_<<runPc, created>>(Advance)

(***************************************************************************)
(* plugins/default_defs.py: ApplyDefaultsCommandCallback on the Command of *)
(* the tree "root", as a one-call state machine                            *)
(***************************************************************************)

MaxDefOpts == 2

\* The entries of DefaultDefs.opts: check asserts that each starts with a
\* dash token and has no other.
DefOptLists ==
    { <<T_x, <<"t">>>>, <<T_x, <<"z">>>>, <<T_x>>, <<T_b>>,
      <<T_ga, <<"t">>, <<"f">>>>, <<T_x, <<"t">>, <<"t">>>> }

\* DefaultDefs.args: no entry or one, for the Argument q or for the Option x
DefArgDicts ==
    { <<>>, <<[name |-> "q", tokens |-> <<<<"t">>>>]>>,
      <<[name |-> "q", tokens |-> <<<<"z">>>>]>>,
      <<[name |-> "x", tokens |-> <<<<"t">>>>]>> }

\* for opt_str_list in subcmd_default_defs.opts: ... on the copy
RECURSIVE process_opts(_, _)
process_opts(cpy, opts) ==
    IF opts = <<>> THEN Step(cpy, Return(<<>>))
    ELSE The({IF r.out.tag = "raise" THEN r
              ELSE IF Len(r.out.ret) > 0 THEN Step(r.ps, Raise("Exception"))
              ELSE process_opts(r.ps, Tail(opts)) :
              r \in {ParameterGroup_process(cpy, "root", Head(opts))}})

\* for name, arg_str_list in subcmd_default_defs.args.items(): ... on the
\* copy
RECURSIVE process_args(_, _)
process_args(cpy, args) ==
    IF args = <<>> THEN Step(cpy, Return(<<>>))
    ELSE IF Schema[Head(args).name].type # "Argument"
    THEN Step(cpy, Raise("AssertionError"))
    ELSE The({IF r.out.tag = "raise" THEN r
              ELSE IF Len(r.out.ret) > 0 THEN Step(r.ps, Raise("Exception"))
              ELSE process_args(r.ps, Tail(args)) :
              r \in {Argument_process(cpy, Head(args).name, Head(args).tokens)}})

\* What transfer_values_to_defaults leaves: the default values of the real
\* group and how the call ended.
Transferred(defaults, out) == [defaults |-> defaults, out |-> out]

\* for name, param in value_pg.items(): ..., the parameters ids of a group
\* of the copy in turn, a nested group by a call of its own
RECURSIVE transfer_loop(_, _, _)
transfer_loop(value_ps, defaults, ids) ==
    IF ids = <<>> THEN Transferred(defaults, Return(<<>>))
    ELSE IF Schema[Head(ids)].type = "Group"
    THEN The({IF r.out.tag = "raise" THEN r
              ELSE transfer_loop(value_ps, r.defaults, Tail(ids)) :
              r \in {transfer_loop(value_ps, defaults, Schema[Head(ids)].params)}})
    ELSE IF unset(value_ps, Head(ids))
    THEN transfer_loop(value_ps, defaults, Tail(ids))
    ELSE IF value(value_ps, Head(ids)).tag = "raise"
    THEN Transferred(defaults, Raise("Exception"))
    ELSE transfer_loop(value_ps,
                       [defaults EXCEPT ![Head(ids)] = value(value_ps, Head(ids)).val],
                       Tail(ids))

\* transfer_values_to_defaults(value_pg, default_pg): it imports pudb and
\* sets a breakpoint before anything else; where pudb cannot be imported
\* the import raises, where it can the debugger session is continued
transfer_values_to_defaults(pudb, value_ps, defaults, gid) ==
    IF ~pudb THEN Transferred(defaults, Raise("ModuleNotFoundError"))
    ELSE transfer_loop(value_ps, defaults, Schema[gid].params)

\* ApplyDefaultsCommandCallback.__call__ on a Command without prev_cmd:
\* the copy after the trial binding, the default values of the real group
\* and how the call ended
ApplyDefaultsCommandCallback_call(pudb, ps, defaults, defs) ==
    The({IF opts.out.tag = "raise"
         THEN [cpy |-> opts.ps, defaults |-> defaults, out |-> opts.out]
         ELSE The({IF args.out.tag = "raise"
                   THEN [cpy |-> args.ps, defaults |-> defaults, out |-> args.out]
                   ELSE The({[cpy |-> args.ps, defaults |-> t.defaults, out |-> t.out] :
                             t \in {transfer_values_to_defaults(pudb, args.ps,
                                                                defaults, "root")}}) :
                   args \in {process_args(opts.ps, defs.args)}}) :
         opts \in {process_opts(ps, defs.opts)}})

DefInit ==
    /\ default_defs \in [opts : SeqsUpTo(DefOptLists, MaxDefOpts), args : DefArgDicts]
    /\ pudb_installed \in BOOLEAN
    /\ default_values = SchemaDefaults
    /\ cmd_cpy = Fresh
    /\ def_pc = "created"
    /\ def_out = NoCall
    /\ TreeFresh
    /\ CmdIdle
    /\ TokIdle
    /\ ProcIdle
    /\ BaseIdle
    /\ PfxIdle
    /\ RunIdle
    /\ StoreIdle

\* apply_defaults_cb(cmd) on the Command just made; the trial binding is
\* made on deepcopy(cmd), the Command's own binding state is not written
ApplyDefaults ==
    /\ def_pc = "created"
    /\ \E r \in {ApplyDefaultsCommandCallback_call(pudb_installed, PS, default_values,
                                                   default_defs)} :
          /\ cmd_cpy' = r.cpy
          /\ default_values' = r.defaults
          /\ def_out' = r.out
          /\ def_pc' = IF r.out.tag = "raise" THEN "raised" ELSE "returned"
    /\ UNCHANGED <<default_defs, pudb_installed>>
    /\ UNCHANGED <<tokVars, procVars, treeVars, cmdVars, baseVars, pfxVars, runVars, storeVars>>

DefNext == ApplyDefaults

SpecDef == DefInit /\ [][DefNext]_vars

(***************************************************************************)
(* C1, C2                                                                  *)
(***************************************************************************)

\* The sequence the claim describes, token by token: a token with exactly
\* one leading dash is replaced by one "-c" token per character c after the
\* dash; every other token stays.
RECURSIVE SingleFlags(_, _)
SingleFlags(x, i) ==
    IF i > Len(x) THEN <<>> ELSE <<(<<"-", x[i]>>)>> \o SingleFlags(x, i + 1)

RECURSIVE ExpectedTokens(_)
ExpectedTokens(args) ==
    IF args = <<>> THEN <<>>
    ELSE LET x == Head(args)
             one == Len(x) >= 1 /\ x[1] = "-" /\ ~(Len(x) >= 2 /\ x[2] = "-")
         IN  (IF one THEN SingleFlags(x, 2) ELSE <<x>>) \o ExpectedTokens(Tail(args))

\* C1: flattening the groups returned by split_and_expand, in order, gives
\* the argument vector with every single-dash token '-c1...cn' replaced by
\* '-c1', ..., '-cn' and every other token unchanged, in the original order.
C1_FlattenIsExpansion ==
    tokPc = "done" => chain(tokGroups) = ExpectedTokens(tokArgs)

\* The spec's example: ['-vf', 't', '--t'] gives [['-v'], ['-f', 't'], ['--t']].
C1_Witness ==
    /\ tokPc = "done"
    /\ tokArgs = << <<"-", "v", "f">>, <<"t">>, <<"-", "-", "t">> >>
    /\ tokGroups = << << <<"-", "v">> >>,
                      << <<"-", "f">>, <<"t">> >>,
                      << <<"-", "-", "t">> >> >>

\* C2: no group is empty, every group but the first starts with a dash
\* token, no token after the first of a group starts with a dash, and the
\* first group lacks a leading trigger exactly when the expanded argument
\* vector begins with a non-dash token.
C2_GroupShape ==
    tokPc = "done" =>
        /\ \A g \in 1..Len(tokGroups) :
              /\ tokGroups[g] # <<>>
              /\ g > 1 => StartsWithDash(tokGroups[g][1])
              /\ \A k \in 2..Len(tokGroups[g]) : ~StartsWithDash(tokGroups[g][k])
        /\ LET expanded == ExpectedTokens(tokArgs)
           IN  (tokGroups # <<>> /\ ~StartsWithDash(tokGroups[1][1]))
                   <=> (expanded # <<>> /\ ~StartsWithDash(expanded[1]))

\* A leading run of positional tokens is the first group, later groups are
\* opened by their trigger: ['t', '', '--t'] gives [['t', ''], ['--t']].
C2_Witness ==
    /\ tokPc = "done"
    /\ tokArgs = << <<"t">>, <<>>, <<"-", "-", "t">> >>
    /\ tokGroups = << << <<"t">>, <<>> >>, << <<"-", "-", "t">> >> >>

(***************************************************************************)
(* C3                                                                      *)
(***************************************************************************)

IsSuffix(s, t) == \E k \in 0..Len(t) : s = SubSeq(t, k + 1, Len(t))

\* What holds of the deque after an iteration: the leftover is its head,
\* the groups that were pending follow, and what is left to consume is a
\* tail of the expanded argument vector.
RequeuedAtFront ==
    /\ (cmdPc \in {"loop", "returned"} /\ lastStep.n > 0
           /\ lastStep.args_return # <<>>) =>
          (/\ input_args_deque # <<>>
           /\ Head(input_args_deque) = lastStep.args_return
           /\ Tail(input_args_deque) = lastStep.pending)
    /\ cmdPc = "loop" => IsSuffix(chain(input_args_deque), ExpectedTokens(argv))
    /\ cmdPc = "returned" => IsSuffix(cmdOut.ret, ExpectedTokens(argv))

\* C3: in Command.process, a non-empty leftover of a consumption step is
\* put at the front of the pending deque, before every group that was
\* already pending, so it is the group the next iteration takes; the tokens
\* not yet consumed always are a tail of the expanded argument vector, in
\* their original order.
C3_LeftoverRequeuedAtFront ==
    [][/\ RequeuedAtFront'
       /\ (lastStep'.n = lastStep.n + 1 /\ lastStep.n > 0
              /\ lastStep.args_return # <<>>) =>
             lastStep'.input_args = lastStep.args_return]_vars

\* ['--n', 't', '--0']: the group ['--n', 't'] leaves ['t'] while ['--0']
\* is pending; the deque becomes [['t'], ['--0']].
C3_Witness ==
    /\ argv = <<T_n, <<"t">>, T_0>>
    /\ cmdPc = "loop"
    /\ lastStep.input_args = <<T_n, <<"t">>>>
    /\ lastStep.args_return = << <<"t">> >>
    /\ lastStep.pending = << <<T_0>> >>
    /\ input_args_deque = << << <<"t">> >>, <<T_0>> >>

(***************************************************************************)
(* C4                                                                      *)
(***************************************************************************)

\* C4: when bind is called with a token list whose first token is one of
\* the processor's triggers, it returns a leftover such that the tokens are
\* the trigger, then the bound value tokens, then the leftover: nothing is
\* created, dropped, duplicated or reordered.  A constant processor binds
\* no value tokens.
C4_Conservation ==
    (procCalls > 0 /\ procArgs # <<>> /\ InList(procArgs[1], proc.triggers)) =>
        LET bound == IF proc.class = "Constant" THEN <<>> ELSE bound_args
        IN  /\ procOut.tag = "return"
            /\ procArgs = <<procArgs[1]>> \o bound \o procOut.ret
            /\ Len(procArgs) = 1 + Len(bound) + Len(procOut.ret)

\* A two-token converter given a trigger and three tokens: two are bound,
\* one is handed back.
C4_Witness ==
    /\ proc.class = "Convert"
    /\ proc.type_converter = "tuple"
    /\ procArgs = << <<"-", "-", "x">>, <<"t">>, <<"z">>, <<"t">> >>
    /\ bound_args = << <<"t">>, <<"z">> >>
    /\ procOut = Return(<< <<"t">> >>)

(***************************************************************************)
(* C5, C6, C7                                                              *)
(***************************************************************************)

\* The triggers the schema makes known, written out: the root group knows
\* the triggers of x, l and b and the prefixed long trigger of g.a.
KnownTriggers ==
    [root |-> {T_x, T_sx, T_l, T_b, T_sb, T_n, T_ga},
     g |-> {T_ga},
     x |-> {T_x, T_sx},
     l |-> {T_l},
     b |-> {T_b, T_sb, T_n},
     a |-> {T_ga}]

\* The number of value tokens the processors of an Option convert.
ValueTokens == [x |-> 1, l |-> 1, b |-> 0, a |-> 2]

UnknownDash(target, args) ==
    /\ args # <<>>
    /\ StartsWithDash(args[1])
    /\ args[1] \notin KnownTriggers[target]

\* C5: process, of an Option or of a ParameterGroup, on a token group whose
\* first token starts with '-' and is not one of its prefix-adjusted
\* triggers raises TriggerError and changes nothing: no leaf's bound value
\* or deferred errors, no processor's bound tokens, no group's counter.
C5_UnknownTriggerConsumesNothing ==
    [][(calls' = calls + 1 /\ UnknownDash(lastCall'.target, lastCall'.args)) =>
          (/\ lastCall'.out = Raise("TriggerError")
           /\ leaves' = leaves
           /\ pbound' = pbound
           /\ num_bound' = num_bound)]_vars

\* '--a' is the trigger the Option a was declared with, but under the
\* prefix of its group only '--g-a' is known: the root group rejects it.
C5_Witness ==
    /\ lastCall.op = "process"
    /\ lastCall.target = "root"
    /\ lastCall.args = <<T_a, <<"t">>>>
    /\ lastCall.out = Raise("TriggerError")
    /\ num_bound["root"] = 0
    /\ leaves = FreshLeaves

ArityErrors == {Raise("TooFewArgsError"), Raise("TooManyArgsError")}

HasBound(id) ==
    IF BaseSchema[id].class = "BoolOption" THEN bleaves[id].value # Ellipsis
    ELSE bleaves[id].bound_args_list # <<>>

Converted(id) ==
    convert(BaseSchema[id].type_converter, bleaves[id].bound_args_list[1])

\* The deferred error of a leaf of base.py: tokens were bound and their
\* conversion fails.
HasDeferredError(id) ==
    /\ BaseSchema[id].class # "BoolOption"
    /\ HasBound(id)
    /\ Converted(id).tag = "raise"

Resolution(id) ==
    IF HasDeferredError(id) THEN Raise(Converted(id).exc)
    ELSE IF HasBound(id)
    THEN IF BaseSchema[id].class = "BoolOption" THEN ReturnVal(bleaves[id].value)
         ELSE ReturnVal(Converted(id).val)
    ELSE IF BaseSchema[id].default_value # Ellipsis
    THEN ReturnVal(BaseSchema[id].default_value)
    ELSE Raise(IF BaseSchema[id].class = "KnownLenArg"
               THEN "UnspecifiedArgumentError" ELSE "UnspecifiedOptionError")

C9_ReadIsIdempotent ==
    [][blast'.op = "value" =>
          /\ bleaves' = bleaves
          /\ (blast.op = "value" /\ blast.target = blast'.target) =>
                blast'.out = blast.out]_vars

\* ka.bind(['t', 'z']), then ka.value twice: ValueError both times.
C9_Witness ==
    /\ blast.op = "value"
    /\ blast.target = "ka"
    /\ blast.reads = 2
    /\ blast.out = Raise("ValueError")
    /\ bleaves["ka"].bound_args_list = << << <<"t">>, <<"z">> >> >>

(***************************************************************************)
(* C10                                                                     *)
(***************************************************************************)

\* The Arguments of the root group in the order of positional dispatch.
ArgOrder == <<"p", "q">>

Touched(lv, id) == lv[id].value # Ellipsis \/ lv[id].exceptions # <<>>

Elements(v) == IF v.kind = "list" THEN v.items ELSE <<>>

\* C11: every successful process call of the list Option l with its trigger
\* appends the conversion of that call's value token to the elements
\* already held, in call order, and returns the tokens after it; a call
\* that fails appends nothing.  The list holds one element per successful
\* call, so never more elements than calls.
C11_AppendInCallOrder ==
    [][/\ Len(Elements(leaves'["l"].value)) <= calls'
       /\ (/\ calls' = calls + 1
           /\ lastCall'.target = "l"
           /\ lastCall'.args[1] = T_l) =>
             LET vals == Tail(lastCall'.args)
             IN  IF vals # <<>>
                 THEN /\ leaves'["l"].value =
                            PyList(Append(Elements(leaves["l"].value),
                                          PyBool(vals[1] = <<"t">>)))
                      /\ leaves'["l"].exceptions = leaves["l"].exceptions
                      /\ lastCall'.out = Return(Tail(vals))
                 ELSE leaves'["l"].value = leaves["l"].value]_vars

\* l.process(['--l', 't']) and then l.process(['--l', 'f']): [True, False].
C11_Witness ==
    /\ calls = 2
    /\ lastCall.target = "l"
    /\ lastCall.args = <<T_l, <<"f">>>>
    /\ lastCall.out = Return(<<>>)
    /\ leaves["l"].value = PyList(<<PyBool(TRUE), PyBool(FALSE)>>)
    /\ leaves["l"].exceptions = <<>>

(***************************************************************************)
(* C12: a boolean Option takes its last trigger                            *)
(***************************************************************************)

\* The positive and the negative triggers of the flag b.
PosTriggers == {T_b, T_sb}

NegTriggers == {T_n}

\* C12: every process call of the boolean Option b with one of its
\* triggers succeeds whatever the Option held before: it returns the tokens
\* after the trigger, defers no error, and leaves the value True after a
\* positive and False after a negative trigger, which .value then returns.
C12_LastTriggerWins ==
    [][(/\ calls' = calls + 1
        /\ lastCall'.target = "b"
        /\ lastCall'.args[1] \in PosTriggers \cup NegTriggers) =>
          /\ lastCall'.out = Return(Tail(lastCall'.args))
          /\ leaves'["b"].value = PyBool(lastCall'.args[1] \in PosTriggers)
          /\ leaves'["b"].exceptions = <<>>
          /\ value([leaves |-> leaves', bound |-> pbound', num_bound |-> num_bound'], "b")
                = ReturnVal(PyBool(lastCall'.args[1] \in PosTriggers))]_vars

\* b.process(['--b']) and then b.process(['--n']): False, nothing but b was
\* touched.
C12_Witness ==
    /\ calls = 2
    /\ lastCall.target = "b"
    /\ lastCall.args = <<T_n>>
    /\ lastCall.out = Return(<<>>)
    /\ leaves["b"].value = PyBool(FALSE)
    /\ \A id \in LeafIds \ {"b"} : leaves[id] = FreshLeaves[id]

(***************************************************************************)
(* C13: a disallowed replace is deferred                                   *)
(***************************************************************************)

C14_PrefixedTriggers ==
    [][/\ \A id \in OptionIds :
             prefix(id) = <<>> => KnownTriggers[id] = DeclaredTriggers(id)
       /\ prefix("a") = <<"g">>
       /\ DeclaredTriggers("a") = {T_a, T_sa}
       /\ KnownTriggers["a"] = {T_ga}
       /\ (calls' = calls + 1 /\ lastCall'.target \in OptionIds) =>
             ((lastCall'.out = Raise("TriggerError"))
                 <=> (lastCall'.args[1] \notin KnownTriggers[lastCall'.target]))]_vars

\* a.process(['--g-a', 't', 'f']) binds the pair, a.process(['-a', 't'])
\* is then rejected.
C14_Witness ==
    /\ calls = 2
    /\ lastCall.target = "a"
    /\ lastCall.args = <<T_sa, <<"t">>>>
    /\ lastCall.out = Raise("TriggerError")
    /\ leaves["a"].value = PyTuple(<<PyBool(TRUE), PyBool(FALSE)>>)
    /\ leaves["a"].exceptions = <<>>

(***************************************************************************)
(* C15: the prefix a group hands to its children                           *)
(***************************************************************************)

\* The non-empty components of a list, joined by "-".
RECURSIVE DashJoin(_)
DashJoin(parts) ==
    IF parts = <<>> THEN <<>>
    ELSE IF Len(parts) = 1 THEN parts[1]
    ELSE parts[1] \o <<"-">> \o DashJoin(Tail(parts))

NonEmpty(parts) == SelectSeq(parts, LAMBDA c : c # <<>>)

\* The group a group of the tree is a parameter of.
PfxParent == [nested |-> "f", inner |-> "nested"]

\* A nested group holds the child_prefix of its parent as prefix_parent.
Attached(h) == prefix_parent[h] = ParameterGroup_child_prefix(PTS, PfxParent[h])

\* C15: the child_prefix of a group is its prefix_parent and its
\* prefix_this (its own name, empty when the name is omitted) joined by
\* "-" with empty components left out, and it is the prefix its Options
\* hold; down a chain of nested groups it is the join of the non-empty
\* names of the chain.  With f omitting its name and Klass named "g", the
\* Option a of Klass is reached as "--g-a" and f's own Option stays "--x".
C15_ChildPrefix ==
    /\ \A g \in PfxGroupIds :
          /\ ParameterGroup_child_prefix(PTS, g)
                = DashJoin(NonEmpty(<<prefix_parent[g], prefix_this[g]>>))
          /\ \A o \in Range(PfxSchema[g].params) \cap PfxOptIds :
                opt_prefix[o] = ParameterGroup_child_prefix(PTS, g)
    /\ (Attached("nested") /\ Attached("inner")) =>
          ParameterGroup_child_prefix(PTS, "inner")
              = DashJoin(NonEmpty(<<prefix_parent["f"], prefix_this["f"],
                                    prefix_this["nested"], prefix_this["inner"]>>))
    /\ (/\ prefix_parent["f"] = <<>>
        /\ prefix_this["f"] = <<>>
        /\ prefix_this["nested"] = <<"g">>
        /\ Attached("nested")) =>
          /\ pfx_final_triggers(PTS, "a") = {T_ga}
          /\ pfx_final_triggers(PTS, "integer") = {T_x}

\* Klass renamed to "h" and back to "g": a is reached as "--g-a", b of
\* Inner under "g-h", integer without prefix.
C15_Witness ==
    /\ pfxLast = [op |-> "prefix_this", target |-> "nested", val |-> <<"g">>]
    /\ prefix_this = PfxThisAtCreation
    /\ opt_prefix = [integer |-> <<>>, a |-> <<"g">>, b |-> <<"g", "-", "h">>]
    /\ pfx_final_triggers(PTS, "a") = {T_ga}

(***************************************************************************)
(* C16: propagation of the prefixes                                        *)
(***************************************************************************)

\* The Options and the nested groups directly under a group.
OptionsUnder(g) == Range(PfxSchema[g].params) \cap PfxOptIds

GroupsUnder(g) == Range(PfxSchema[g].params) \cap PfxGroupIds

\* A group and the groups nested in it, at any depth.
Below == [f |-> {"f", "nested", "inner"}, nested |-> {"nested", "inner"},
          inner |-> {"inner"}]

\* The children of g hold g's child_prefix, in the fields ts.
InStep(ts, g) ==
    /\ \A o \in OptionsUnder(g) : ts.opt_prefix[o] = ParameterGroup_child_prefix(ts, g)
    /\ \A h \in GroupsUnder(g) : ts.prefix_parent[h] = ParameterGroup_child_prefix(ts, g)

\* C16 as stated: whatever was assigned, the children of every group of the
\* tree hold that group's child_prefix.
C16_AllInStep == \A g \in PfxGroupIds : InStep(PTS, g)

\* C16, amended: an assignment to prefix_parent or prefix_this of a group g
\* brings the children of g and of every group below g in step with their
\* group, and changes no other field than the assigned one; every Option
\* always holds the child_prefix of its group.  The whole tree stays in
\* step under assignments to prefix_this of any group and to prefix_parent
\* of the root; a prefix_parent assigned to a nested group is kept as
\* assigned, whatever the child_prefix of the group above it.
C16_PropagatesDownwards ==
    [][LET g == pfxLast'.target
           ts == [prefix_parent |-> prefix_parent', prefix_this |-> prefix_this',
                  opt_prefix |-> opt_prefix']
       IN  /\ \A d \in Below[g] : InStep(ts, d)
           /\ \A d \in PfxGroupIds : \A o \in OptionsUnder(d) :
                 /\ ts.opt_prefix[o] = ParameterGroup_child_prefix(ts, d)
                 /\ d \notin Below[g] => ts.opt_prefix[o] = opt_prefix[o]
           /\ \A d \in PfxGroupIds :
                 /\ (d # g \/ pfxLast'.op # "prefix_this") =>
                       ts.prefix_this[d] = prefix_this[d]
                 /\ d \notin Below[g] => ts.prefix_parent[d] = prefix_parent[d]
           /\ pfxLast'.op = "prefix_parent" => ts.prefix_parent[g] = pfxLast'.val
           /\ pfxLast'.op = "prefix_this" => ts.prefix_this[g] = pfxLast'.val
           /\ (C16_AllInStep /\ (pfxLast'.op = "prefix_this" \/ g = "f")) =>
                 \A d \in PfxGroupIds : InStep(ts, d)]_vars

\* nested.prefix_parent = "h": Klass keeps "h" although f hands its
\* children no prefix; below Klass everything follows.
C16_Witness ==
    /\ pfxLast = [op |-> "prefix_parent", target |-> "nested", val |-> <<"h">>]
    /\ prefix_this = PfxThisAtCreation
    /\ prefix_parent = [f |-> <<>>, nested |-> <<"h">>, inner |-> <<"h", "-", "g">>]
    /\ opt_prefix = [integer |-> <<>>, a |-> <<"h", "-", "g">>,
                     b |-> <<"h", "-", "g", "-", "h">>]

(***************************************************************************)
(* C17: colliding triggers                                                 *)
(***************************************************************************)

\* The final triggers of all the Options of a group, nested ones included,
\* one entry for each Option that holds the trigger.
RECURSIVE FlatTriggers(_)
FlatTriggers(gid) ==
    UNION {IF Schema[id].type = "Option" THEN final_triggers(id) \X {id}
           ELSE IF Schema[id].type = "Group" THEN FlatTriggers(id)
           ELSE {} : id \in Range(Schema[gid].params)}

HasDuplicate(gid) ==
    \E s, t \in FlatTriggers(gid) : s[1] = t[1] /\ s[2] # t[2]

\* C17: building a group whose flattened, prefix-adjusted triggers hold one
\* trigger twice raises DuplicatedTriggerError; no process call is made on
\* such a group, and no process call ends in DuplicatedTriggerError.
C17_DuplicateRejectedAtConstruction ==
    /\ (lastCall.op = "construct" /\ HasDuplicate(lastCall.target)) =>
          lastCall.out = Raise("DuplicatedTriggerError")
    /\ lastCall.op = "process" =>
          /\ ~HasDuplicate(lastCall.target)
          /\ lastCall.out # Raise("DuplicatedTriggerError")

\* The group d, where d1 is "--g-a" and e1, "--a" under the prefix g, is
\* "--g-a" too, was built without an error; d.process(['--g-a', 't'])
\* raises DuplicatedTriggerError.
C17_Witness ==
    /\ HasDuplicate("d")
    /\ lastCall.op = "process"
    /\ lastCall.target = "d"
    /\ lastCall.args = <<T_ga, <<"t">>>>
    /\ lastCall.out = Raise("DuplicatedTriggerError")
    /\ calls = 1

(***************************************************************************)
(* C18: triggers of a nested group                                         *)
(***************************************************************************)

\* What the merged trigger map of the root holds for a trigger.
MappedTo(trigger) ==
    (CHOOSE pair \in final_trigger_map("root").map : pair[1] = trigger)[2]

\* C18: when root.process dispatches a trigger of its merged map, the map
\* holds the leaf Option for it, also when the Option is inside the nested
\* group g, and the dispatch state of g (its counter of bound token
\* groups) is left as it was.
C18_NestedGroupNotReentered ==
    [][(/\ calls' = calls + 1
        /\ lastCall'.target = "root"
        /\ lastCall'.args # <<>>
        /\ lastCall'.args[1] \in KnownTriggers["root"]) =>
          /\ Schema[MappedTo(lastCall'.args[1])].type = "Option"
          /\ num_bound'["g"] = num_bound["g"]]_vars

\* root.process(['--g-a', 't']): the map gives the group g, whose process
\* is entered and counts the token group.
C18_Witness ==
    /\ lastCall.op = "process"
    /\ lastCall.target = "root"
    /\ lastCall.args = <<T_ga, <<"t">>>>
    /\ MappedTo(T_ga) = "g"
    /\ num_bound = [FreshNumBound EXCEPT !["root"] = 1, !["g"] = 1]

(***************************************************************************)
(* C19: the order in which Arguments are filled                            *)
(***************************************************************************)

\* The Arguments of a group in the order its parameters are declared.
DeclaredArguments(gid) ==
    SelectSeq(Schema[gid].params, LAMBDA id : Schema[id].type = "Argument")

\* C19: a token group that does not start with a dash goes to the first
\* Argument, in declaration order, that is still unset, and to no other
\* leaf; so an Argument is never filled while one declared before it is
\* unset.
C19_DeclarationOrder ==
    [][(/\ calls' = calls + 1
        /\ lastCall'.op = "process"
        /\ lastCall'.args # <<>>
        /\ ~StartsWithDash(lastCall'.args[1])) =>
          LET declared == DeclaredArguments(lastCall'.target)
              pending == SelectSeq(declared, LAMBDA id : unset(PS, id))
              after == [leaves |-> leaves', bound |-> pbound', num_bound |-> num_bound']
          IN  /\ pending # <<>> =>
                    /\ ~unset(after, Head(pending))
                    /\ \A id \in AllLeafIds \ {Head(pending)} : leaves'[id] = leaves[id]
              /\ \A i, j \in 1..Len(declared) :
                    (i < j /\ ~unset(after, declared[j])) => ~unset(after, declared[i])]_vars

\* h.process(['t']) on def h(hq, *hv): the token goes to hv, hq declared
\* before it stays unset.
C19_Witness ==
    /\ lastCall.op = "process"
    /\ lastCall.target = "h"
    /\ lastCall.args = << <<"t">> >>
    /\ lastCall.out = Return(<<>>)
    /\ DeclaredArguments("h") = <<"hq", "hv">>
    /\ leaves["hv"].value = PyList(<<PyBool(TRUE)>>)
    /\ unset(PS, "hq")
    /\ calls = 1

(***************************************************************************)
(* C20: a positional token group nobody takes                              *)
(***************************************************************************)

\* C20: when a token group that does not start with a dash is processed by
\* a group none of whose Arguments is unset, process returns the very
\* tokens it was given and changes nothing: no leaf, no bound tokens and no
\* counter.
C20_UnconsumedWhenNoneUnset ==
    [][(/\ calls' = calls + 1
        /\ lastCall'.op = "process"
        /\ lastCall'.args # <<>>
        /\ ~StartsWithDash(lastCall'.args[1])
        /\ \A id \in Range(Schema[lastCall'.target].params) :
              Schema[id].type = "Argument" => ~unset(PS, id)) =>
          /\ lastCall'.out = Return(lastCall'.args)
          /\ leaves' = leaves
          /\ pbound' = pbound
          /\ num_bound' = num_bound]_vars

\* hv and hq of h are bound; h.process(['f', 't']) gives the two tokens
\* back.
C20_Witness ==
    /\ calls = 3
    /\ lastCall.op = "process"
    /\ lastCall.target = "h"
    /\ lastCall.args = << <<"f">>, <<"t">> >>
    /\ lastCall.out = Return(<< <<"f">>, <<"t">> >>)
    /\ ~unset(PS, "hq")
    /\ ~unset(PS, "hv")
    /\ num_bound["h"] = 2

(***************************************************************************)
(* C21: the counter of a group                                             *)
(***************************************************************************)

\* The token group is one the group gid dispatches to a leaf below it: a
\* trigger of one of its Options while no trigger is met twice, or
\* positional tokens while an Argument of gid is unset.
DispatchedBy(gid, input_args) ==
    /\ input_args # <<>>
    /\ IF StartsWithDash(input_args[1])
       THEN /\ \E s \in FlatTriggers(gid) : s[1] = input_args[1]
            /\ ~HasDuplicate(gid)
       ELSE \E id \in Range(Schema[gid].params) :
               Schema[id].type = "Argument" /\ unset(PS, id)

Resolved(id) ==
    IF leaves[id].value # Ellipsis THEN leaves[id].value ELSE Schema[id].default_value

\* The leaves the read of the group fails on: in error, or required and
\* unset.
Failing(gid) ==
    {id \in Range(Schema[gid].params) :
        /\ Schema[id].type # "Group"
        /\ \/ leaves[id].exceptions # <<>>
           \/ Resolved(id) = Ellipsis}

\* C22: the group n has parameters and a default.  While no token group
\* was bound to it, n.value is that default and no callable is invoked,
\* whatever was bound to other groups.  Once a token group was bound to it,
\* n.value is never the default: N is invoked once with the values of na
\* and nb and its object returned, unless a leaf is in error or a required
\* leaf is still unset, and then ParameterError is raised and N is not
\* invoked.
C22_DefaultWhileUnset ==
    (lastCall.op = "value" /\ lastCall.target = "n") =>
        IF num_bound["n"] = 0
        THEN lastCall.out = Returned(Schema["n"].default_value, <<>>)
        ELSE IF Failing("n") = {}
        THEN lastCall.out =
                 Returned(Object("n", <<Resolved("na"), Resolved("nb")>>), <<"n">>)
        ELSE /\ lastCall.out.tag = "raise"
             /\ lastCall.out.exc.class = "ParameterError"
             /\ lastCall.out.invoked = <<>>

\* '--g-b t' was bound and na, which is required, is still unset: n.value
\* raises ParameterError instead of returning the default.
C22_Witness ==
    /\ lastCall.op = "value"
    /\ lastCall.target = "n"
    /\ num_bound["n"] = 1
    /\ leaves["nb"].value = PyBool(TRUE)
    /\ unset(PS, "na")
    /\ lastCall.out.tag = "raise"
    /\ lastCall.out.exc = Exc("ParameterError", <<Exc("UnspecifiedOptionError", <<>>, <<>>)>>, <<>>)

(***************************************************************************)
(* C23: the aggregate of the deferred errors                               *)
(***************************************************************************)

\* The deferred errors of the members of a group, nested ones included, in
\* the order of the parameters: for each leaf in error the error its read
\* raises.
RECURSIVE MemberErrors(_)
MemberErrors(gid) ==
    LET RECURSIVE over(_)
        over(ids) ==
            IF ids = <<>> THEN <<>>
            ELSE (IF Schema[Head(ids)].type = "Group" THEN MemberErrors(Head(ids))
                  ELSE IF leaves[Head(ids)].exceptions # <<>>
                  THEN <<Exc(leaves[Head(ids)].exceptions[1], <<>>, <<>>)>>
                  ELSE <<>>) \o over(Tail(ids))
    IN  over(Schema[gid].params)

\* The errors an exception refers to: those an aggregate holds and those
\* a wrapping error was raised from, down to the errors of the leaves.
RECURSIVE LeafErrors(_)
LeafErrors(e) ==
    LET RECURSIVE over(_)
        over(es) == IF es = <<>> THEN <<>> ELSE LeafErrors(Head(es)) \o over(Tail(es))
    IN  IF e.exceptions # <<>> THEN over(e.exceptions)
        ELSE IF e.cause # <<>> THEN over(e.cause)
        ELSE <<e>>

\* C23: a read of .value on a group with at least one member, direct or
\* nested, in error invokes no wrapped callable of that group and raises
\* MultiParameterError, and the errors the aggregate refers to are exactly
\* the errors of the failing members, one for each.
C23_AggregateHoldsEveryError ==
    (/\ lastCall.op = "value"
     /\ Len(MemberErrors(lastCall.target)) >= 1) =>
        /\ lastCall.out.tag = "raise"
        /\ lastCall.out.exc.class = "MultiParameterError"
        /\ LeafErrors(lastCall.out.exc) = MemberErrors(lastCall.target)
        /\ lastCall.target \notin Range(lastCall.out.invoked)

\* '--x' and '--b' were each given without a value: both Options of w hold
\* a TooFewArgsError.  w.value raises a plain ParameterError whose cause is
\* the error of wa alone; no aggregate is raised and wb is not referred to.
C23_Witness ==
    /\ lastCall.op = "value"
    /\ lastCall.target = "w"
    /\ leaves["wa"].exceptions = <<"TooFewArgsError">>
    /\ leaves["wb"].exceptions = <<"TooFewArgsError">>
    /\ MemberErrors("w") = <<Exc("TooFewArgsError", <<>>, <<>>),
                             Exc("TooFewArgsError", <<>>, <<>>)>>
    /\ lastCall.out = Raised(Exc("ParameterError",
                                 <<Exc("TooFewArgsError", <<>>, <<>>)>>, <<>>), <<>>)

(***************************************************************************)
(* C24: an exception of the wrapped callable                               *)
(***************************************************************************)

\* Every argument of w resolves: no leaf of w is in error or required and
\* unset, and n is its default or can be built.
ArgumentsResolve ==
    /\ Failing("w") = {}
    /\ num_bound["n"] = 0 \/ Failing("n") = {}

\* C24: when every argument value resolved and the wrapped callable itself
\* raises (w raises ValueError when wb is true), the read of .value raises
\* an error that is not a parameter error and whose cause is the exception
\* the callable raised.
C24_CallErrorIsDistinct ==
    (/\ lastCall.op = "value"
     /\ lastCall.target = "w"
     /\ ArgumentsResolve
     /\ Resolved("wb") = PyBool(TRUE)) =>
        /\ lastCall.out.tag = "raise"
        /\ lastCall.out.exc.cause = <<Exc("ValueError", <<>>, <<>>)>>
        /\ ~IsParameterError(lastCall.out.exc)

\* '--x t' and '--b t' were bound, w was invoked and raised ValueError:
\* w.value raises ParameterError from that ValueError, the class it also
\* raises when the read of an argument fails.
C24_Witness ==
    /\ lastCall.op = "value"
    /\ lastCall.target = "w"
    /\ leaves["wa"].value = PyBool(TRUE)
    /\ leaves["wb"].value = PyBool(TRUE)
    /\ num_bound["n"] = 0
    /\ ArgumentsResolve
    /\ lastCall.out = Raised(Exc("ParameterError", <<Exc("ValueError", <<>>, <<>>)>>, <<>>),
                             <<"w">>)

(***************************************************************************)
(* C25: Arguments and subcommands                                          *)
(***************************************************************************)

\* The group of the Command has an Argument among its own parameters.
ExposesArgument(id) ==
    \E p \in Range(Schema[id].params) : Schema[p].type = "Argument"

Named(self, name) == (CHOOSE pair \in subcommands[self] : pair[1] = name)[2]

\* The name is one of the subcommands of the Command.
KnownName(self, name) == \E pair \in subcommands[self] : pair[1] = name

C27_UnknownSubcommand ==
    [][(/\ runPc = "loop"
        /\ leftover' # <<>>
        /\ ~KnownName(cmd, leftover'[1]))
       => /\ runPc' = "raised"
          /\ runOut'.exc = Exc("UnknownCommandError", <<>>, <<>>)
          /\ created' = created
          /\ cmd' = cmd
          /\ prev_cmd' = prev_cmd
          /\ executed' = executed
          /\ \A i \in 1..Len(executed') : executed'[i] # cmd]_vars

\* run of run.py on C with ['--x', 't', 'z']: '--x' 't' is bound on C, 'z' is left over and
\* names no subcommand of C; C is not executed.
C27_Witness ==
    /\ driver = "run.py"
    /\ top = "c"
    /\ leaves["cx"].value = PyBool(TRUE)
    /\ leftover = <<<<"z">>>>
    /\ runPc = "raised"
    /\ runOut = Raised(Exc("UnknownCommandError", <<>>, <<>>), <<>>)
    /\ executed = <<>>
    /\ created = <<"c">>
    /\ cmd = "c"

(***************************************************************************)
(* C28: structural errors and the callables of the chain                   *)
(***************************************************************************)

\* The errors of the structure of the command line.
StructuralErrors == {"TriggerError", "DuplicatedTriggerError", "UnknownCommandError"}

\* The run ended with a structural error.
EndedStructural == runPc = "raised" /\ runOut.exc.class \in StructuralErrors

C29_EndsWithTheValue ==
    runPc = "done" =>
        /\ runOut.tag = "return"
        /\ runOut.val = ParameterGroup_value(PS, cmd).val
        /\ runOut.val # None
        /\ executed # <<>>
        /\ executed[Len(executed)] = cmd

\* run(C, []) with process_all_args of command.py: the loop is not entered,
\* None is returned and C is not executed.
C29_Witness ==
    /\ driver = "command.py"
    /\ top = "c"
    /\ cmd = "c"
    /\ all_args = <<>>
    /\ leftover = <<>>
    /\ created = <<"c">>
    /\ runPc = "done"
    /\ runOut = Returned(None, <<>>)
    /\ executed = <<>>

(***************************************************************************)
(* C30: deferred errors and the rest of the argument vector                *)
(***************************************************************************)

\* The binding state without the deferred errors of its leaves.
WithoutErrors(ps) ==
    [ps EXCEPT !.leaves = [id \in DOMAIN ps.leaves |->
                              [ps.leaves[id] EXCEPT !.exceptions = <<>>]]]

\* A leaf of the tree holds a deferred error.
SomeDeferred(ps) == \E id \in LeafIds : ps.leaves[id].exceptions # <<>>

BindingState(ps, self) ==
    [leaves |-> [p \in Range(Schema[self].params) |-> ps.leaves[p]],
     bound |-> [p \in Range(Schema[self].params) |-> ps.bound[p]],
     num_bound |-> ps.num_bound[self]]

\* The Commands that a child took over from.
Superseded == {created[i] : i \in 1..(Len(created) - 1)}

\* C31: no step of the run changes the binding state of a Command that has
\* a child; what a step binds, it binds on the Command that is the current
\* one when the step begins; and prev_cmd links the Commands that were made
\* into one chain without a repetition, from the current Command back to
\* the root, which has no prev_cmd.
C31_SupersededIsFrozen ==
    [][/\ \A x \in Superseded : BindingState(PS', x) = BindingState(PS, x)
       /\ \A x \in CommandIds :
             BindingState(PS', x) # BindingState(PS, x) => x = cmd
       /\ created' # <<>> =>
             /\ cmd' = created'[Len(created')]
             /\ prev_cmd'[created'[1]] = ""
             /\ \A i \in 2..Len(created') : prev_cmd'[created'[i]] = created'[i - 1]
             /\ \A i, j \in 1..Len(created') : created'[i] = created'[j] => i = j]_vars

\* run(C, ['--x', 't', 'm', '--a']): x = True is bound on C, C is executed
\* and m takes over; '--a' comes without its value and the error is kept
\* on m, while C holds what it held.
C31_Witness ==
    /\ all_args = <<>>
    /\ created = <<"c", "m">>
    /\ prev_cmd["m"] = "c"
    /\ prev_cmd["c"] = ""
    /\ leaves["cx"].value = PyBool(TRUE)
    /\ leaves["cx"].exceptions = <<>>
    /\ num_bound["c"] = 1
    /\ leaves["m1"].exceptions = <<"TooFewArgsError">>
    /\ num_bound["m"] = 1
    /\ executed = <<"c">>
    /\ runPc = "raised"

(***************************************************************************)
(* C32                                                                     *)
(***************************************************************************)

\* The constructor of entry i of the store accepts the type: it returns a
\* converter.
Accepts(store, i, target_type) ==
    construct(store[i].converter, target_type, store).tag = "return"

Accepting(store, target_type) ==
    {i \in 1..Len(store) : Accepts(store, i, target_type)}

FirstAccepting(store, target_type) ==
    CHOOSE i \in Accepting(store, target_type) :
        \A j \in Accepting(store, target_type) : i <= j

Asked == store_pc \in {"built", "raised", "converted"}

DescendingPriority(store) ==
    \A i, j \in 1..Len(store) : i < j => store[i].priority >= store[j].priority

\* The first constructor in store order that accepts the type built the
\* converter get_converter returned.
FirstAcceptingWins ==
    Asked /\ Accepting(_converters_with_priority, requested_type) # {}
        => /\ got_converter.tag = "return"
           /\ got_converter.converter
                = construct(_converters_with_priority[
                                FirstAccepting(_converters_with_priority, requested_type)
                            ].converter,
                            requested_type, _converters_with_priority).converter

\* C32: after any sequence of add_converter calls the store's list is in
\* descending order of priority; get_converter returns the converter built
\* by the first constructor in that order that accepts the type; and when no
\* constructor accepts the type, get_converter fails with NoConverterFound.
C32_FirstAcceptingOrNoConverterFound ==
    /\ DescendingPriority(_converters_with_priority)
    /\ FirstAcceptingWins
    /\ Asked /\ Accepting(_converters_with_priority, requested_type) = {}
        => got_converter.tag = "raise" /\ got_converter.exc = "NoConverterFound"

\* complex is asked of the default store with IntCLIArgConverter added a
\* second time in front: no constructor accepts it and the lookup raised
\* TypeError.
C32_Witness ==
    /\ store_pc = "raised"
    /\ num_added = 1
    /\ Len(_converters_with_priority) = 11
    /\ _converters_with_priority[1] = [converter |-> "IntCLIArgConverter", priority |-> 11]
    /\ requested_type = t_complex
    /\ Accepting(_converters_with_priority, requested_type) = {}
    /\ got_converter = NotBuilt("TypeError")

(***************************************************************************)
(* C33                                                                     *)
(***************************************************************************)

UnionConverted ==
    /\ store_pc = "converted"
    /\ got_converter.converter.class = "UnionCLIArgConverter"

\* The priority under which the store built a member of the Union
MemberPriority(member) ==
    _get_converter_priority(_converters_with_priority, member.target_type).priority

\* What each member of the Union makes of the tokens, in the order the
\* members are held
MemberOutcomes ==
    [i \in 1..Len(got_converter.converter.converters) |->
        CLIArgConverter_convert(got_converter.converter.converters[i], convert_args)]

\* The members are the converters of the Union's types, held in descending
\* order of store priority.
MembersByPriority ==
    LET members == got_converter.converter.converters
    IN  /\ Len(members) = Len(requested_type.args)
        /\ \A i \in 1..Len(requested_type.args) :
              \E j \in 1..Len(members) :
                  members[j] = _get_converter_priority(_converters_with_priority,
                                                       requested_type.args[i]).converter
        /\ \A i, j \in 1..Len(members) :
              i < j => MemberPriority(members[i]) >= MemberPriority(members[j])

\* The first member that succeeds gives the result.
FirstSuccessKept ==
    \A i \in 1..Len(MemberOutcomes) :
        /\ MemberOutcomes[i].tag = "return"
        /\ \A j \in 1..(i - 1) : MemberOutcomes[j].tag = "raise"
        => convert_out = MemberOutcomes[i]

\* With the default store, Union[test, int] turns "2" into the member of the
\* Enum and "1" into the integer 1.
EnumBeforeInt ==
    /\ _converters_with_priority = CLIArgConverterStore_init(TRUE)
    /\ requested_type \in {Union(<<enum_test, t_int>>), Union(<<t_int, enum_test>>)}
    => /\ convert_args = <<<<"2">>>> => convert_out = ReturnVal(EnumMember("test", <<"2">>))
       /\ convert_args = <<<<"1">>>> => convert_out = ReturnVal(PyInt(1))

RECURSIVE VariableArityType(_)
VariableArityType(t) ==
    \/ t.origin = "List"
    \/ /\ t.origin = "Union"
       /\ \E i \in 1..Len(t.args) : VariableArityType(t.args[i])

\* A List of a type of variable arity, or a Tuple with an element of
\* variable arity.
NestsVariableArity(t) ==
    /\ t.origin \in {"List", "Tuple"}
    /\ \E i \in 1..Len(t.args) : VariableArityType(t.args[i])

FixedArity(c) ==
    /\ Converter_num_required_args(c).max # -1
    /\ Converter_num_required_args(c).min = Converter_num_required_args(c).max

\* Every List converter within c has an inner converter of fixed arity and
\* every Tuple converter within c has element converters of fixed arity.
RECURSIVE OnlyFixedArityNested(_)
OnlyFixedArityNested(c) ==
    /\ c.class \in {"ListCLIArgConverter", "TupleCLIArgConverter"}
          => \A i \in 1..Len(c.converters) : FixedArity(c.converters[i])
    /\ \A i \in 1..Len(c.converters) : OnlyFixedArityNested(c.converters[i])

\* C34: every converter the store returns holds no List converter with an
\* inner converter of variable arity and no Tuple converter with an element
\* converter of variable arity; asking for the converter of a type that
\* nests a variable-arity type in a List or a Tuple raises, so that no
\* converter of it is ever called.
C34_NoVariableArityNested ==
    /\ got_converter.tag = "return" => OnlyFixedArityNested(got_converter.converter)
    /\ Asked /\ NestsVariableArity(requested_type)
          => /\ got_converter.tag = "raise"
             /\ got_converter.converter = NoConverter
             /\ store_pc = "raised"
             /\ convert_out = NoCall

\* List[List[int]] was asked of the default store: List[int] has a
\* converter of variable arity, and the lookup raised.
C34_Witness ==
    /\ store_pc = "raised"
    /\ _converters_with_priority = CLIArgConverterStore_init(TRUE)
    /\ requested_type = List(<<List(<<t_int>>)>>)
    /\ get_converter(_converters_with_priority, List(<<t_int>>)).tag = "return"
    /\ ~FixedArity(get_converter(_converters_with_priority, List(<<t_int>>)).converter)
    /\ got_converter = NotBuilt("TypeError")

(***************************************************************************)
(* C35                                                                     *)
(***************************************************************************)

ConvertCalled == store_pc = "converted"

\* C35: a converter of fixed arity n that is given n - 1 tokens raises
\* TooFewArgsError, and given n + 1 tokens it raises TooManyArgsError.
C35_OneFewerOneMore ==
    ConvertCalled /\ FixedArity(got_converter.converter) =>
        LET n == Converter_num_required_args(got_converter.converter).max
        IN  /\ Len(convert_args) = n - 1 => convert_out = Raise("TooFewArgsError")
            /\ Len(convert_args) = n + 1 => convert_out = Raise("TooManyArgsError")

\* The int converter of the default store was given no token and returned
\* 0.
C35_Witness ==
    /\ ConvertCalled
    /\ _converters_with_priority = CLIArgConverterStore_init(TRUE)
    /\ requested_type = t_int
    /\ got_converter.converter = Converter("IntCLIArgConverter", t_int, <<>>)
    /\ FixedArity(got_converter.converter)
    /\ convert_args = <<>>
    /\ convert_out = ReturnVal(PyInt(0))

(***************************************************************************)
(* C36                                                                     *)
(***************************************************************************)

DefaultsApplied == def_pc \in {"returned", "raised"}

\* A leaf of the copy holds a value and no deferred error.
BoundInCopy(id) ==
    cmd_cpy.leaves[id].value # Ellipsis /\ cmd_cpy.leaves[id].exceptions = <<>>

\* The Command's own group is as it was made: every leaf unset, no deferred
\* error, no bound argument, every counter 0.
RealGroupUntouched ==
    /\ \A id \in LeafIds : unset(PS, id)
    /\ leaves = FreshLeaves
    /\ pbound = FreshBound
    /\ num_bound = FreshNumBound

\* C36: applying a defaults definition binds its tokens on a deep copy only:
\* the Command's own group keeps every leaf unset, its counters and no
\* deferred error; the default_value of exactly the leaves that were bound
\* successfully in the copy becomes the value read from the copy, and the
\* default_value of every other leaf is what it was.
C36_TrialBindSetsDefaults ==
    DefaultsApplied =>
        /\ RealGroupUntouched
        /\ \A id \in AllLeafIds :
              default_values[id] = IF id \in LeafIds /\ BoundInCopy(id)
                                   THEN cmd_cpy.leaves[id].value
                                   ELSE Schema[id].default_value

\* The definition with the one option list ["--x", "t"] was applied where
\* pudb cannot be imported: the copy bound x to True, the callback raised
\* ModuleNotFoundError and the default of x is still unset.
C36_Witness ==
    /\ def_pc = "raised"
    /\ ~pudb_installed
    /\ default_defs = [opts |-> <<<<T_x, <<"t">>>>>>, args |-> <<>>]
    /\ cmd_cpy.leaves["x"] = [value |-> PyBool(TRUE), exceptions |-> <<>>]
    /\ def_out = Raise("ModuleNotFoundError")
    /\ default_values["x"] = Ellipsis
    /\ RealGroupUntouched

(***************************************************************************)
(* C37                                                                     *)
(***************************************************************************)

\* The number of tokens in the deque
TokenCount(deque) == Len(chain(deque))

\* What every iteration of the loop of Command.process on the deque does,
\* up to the end of the loop: it takes the first group off and then raises,
\* or returns the group and all pending ones because the group came back
\* with all its tokens, or goes on with nothing or a strictly shorter
\* leftover put back in front of the pending groups.
RECURSIVE EveryIterationShrinks(_, _, _)
EveryIterationShrinks(ps, self, deque) ==
    \/ deque = <<>>
    \/ \A it \in {Command_process_iteration(ps, self, Head(deque), Tail(deque))} :
          IF it.done
          THEN \/ it.step.out.tag = "raise"
               \/ it.step.out = Return(chain(deque))
          ELSE /\ \/ it.deque = Tail(deque)
                  \/ /\ it.deque # <<>>
                     /\ Tail(it.deque) = Tail(deque)
                     /\ Len(Head(it.deque)) < Len(Head(deque))
               /\ TokenCount(it.deque) < TokenCount(deque)
               /\ EveryIterationShrinks(it.step.ps, self, it.deque)

\* A step of the loop of process_all_args after which the loop goes on
Dispatch == runPc = "loop" /\ runPc' = "loop"

\* C37: every iteration of the loop of Command.process takes the first
\* group off the deque and then raises, or returns because the group came
\* back with all its tokens, or goes on after putting back strictly fewer
\* tokens than it took (none at all or a shorter leftover), so that the
\* number of pending tokens falls; every iteration of the loop of
\* process_all_args that goes on has made a subcommand and left fewer tokens
\* than it found; and the loop ends.
C37_LoopsTerminate ==
    /\ [](runPc = "loop" => EveryIterationShrinks(PS, cmd, split_and_expand(all_args)))
    /\ [][Dispatch =>
            /\ Len(created') = Len(created) + 1
            /\ Len(all_args') < Len(all_args)]_vars
    /\ <>[](runPc \in {"done", "raised"})

\* run was called on the class C with ["m", "--0", "t", "--x"]: "m" came back
\* whole and the subcommand m was made of it, which is about to process
\* ["--0", "t", "--x"].
C37_Witness ==
    /\ runPc = "loop"
    /\ created = <<"c", "m">>
    /\ cmd = "m"
    /\ all_args = <<T_0, <<"t">>, T_x>>

(***************************************************************************)
(* C38                                                                     *)
(***************************************************************************)

\* The expanded token sequence of the argument vector
Expanded(args) == chain(split_and_expand(args))

\* Where the loop of Command.process stops going on: the state of the
\* parameters and the deque at the first iteration that returns or raises,
\* or the empty deque.
RECURSIVE LoopEnd(_, _, _)
LoopEnd(ps, self, deque) ==
    IF deque = <<>> THEN [ps |-> ps, deque |-> deque]
    ELSE LET it == Command_process_iteration(ps, self, Head(deque), Tail(deque))
         IN  IF it.done THEN [ps |-> ps, deque |-> deque]
             ELSE LoopEnd(it.step.ps, self, it.deque)

\* The group is not for a global callback and the parameter group hands it
\* back with all its tokens.
HandedBackWhole(ps, self, input_args) ==
    /\ input_args # <<>>
    /\ ~\E pair \in global_callbacks_map : pair[1] = input_args[1]
    /\ ParameterGroup_process(ps, self, input_args).out = Return(input_args)

\* What Command.process returns on the tokens, and where its loop ended
ProcessReturned == Command_process(PS, cmd, all_args).out

ProcessEnd == LoopEnd(PS, cmd, split_and_expand(all_args))

\* C38: what Command.process returns is a suffix of the expanded token
\* sequence of its argument vector; it is empty when the loop emptied the
\* deque, and otherwise it is the group at which the loop ended, which is
\* the first that the parameter group handed back with all its tokens,
\* followed by the tokens of the groups still pending.
C38_ReturnIsUnconsumedSuffix ==
    runPc = "loop" /\ ProcessReturned.tag = "return" =>
        /\ IsSuffix(ProcessReturned.ret, Expanded(all_args))
        /\ ProcessReturned.ret = chain(ProcessEnd.deque)
        /\ ProcessEnd.deque # <<>> =>
               HandedBackWhole(ProcessEnd.ps, cmd, Head(ProcessEnd.deque))

\* The Command of the class C is about to process ["--x", "t", "m", "--0"]:
\* the group binds "--x t" and puts back ["m"], which comes back whole and
\* is returned with the pending "--0".
C38_Witness ==
    /\ runPc = "loop"
    /\ cmd = "c"
    /\ all_args = <<T_x, <<"t">>, N_m, T_0>>
    /\ ProcessEnd.deque = <<<<N_m>>, <<T_0>>>>
    /\ ProcessReturned = Return(<<N_m, T_0>>)

(***************************************************************************)
(* C39                                                                     *)
(***************************************************************************)

BareDash == <<"-">>

NotBareDash(x) == x # BareDash

\* The tokens of all groups, in order
GroupTokens == chain(tokGroups)

\* C39: a token of the argument vector expands to no token exactly when it
\* is the bare "-"; no group holds a bare "-", the groups are those of the
\* argument vector without its bare dashes, and they hold at least one token
\* for every other token of the argument vector.
C39_BareDashDropped ==
    tokPc = "done" =>
        /\ \A i \in 1..Len(tokArgs) :
               expand_dash_arg(tokArgs[i]) = <<>> <=> tokArgs[i] = BareDash
        /\ \A k \in 1..Len(GroupTokens) : GroupTokens[k] # BareDash
        /\ tokGroups = split_and_expand(SelectSeq(tokArgs, NotBareDash))
        /\ Len(GroupTokens) >= Len(SelectSeq(tokArgs, NotBareDash))
        /\ GroupTokens = chain([i \in 1..Len(SelectSeq(tokArgs, NotBareDash)) |->
                                   expand_dash_arg(SelectSeq(tokArgs, NotBareDash)[i])])

\* ["-vf", "-", "t"] was split: the groups are ["-v"] and ["-f", "t"], and
\* the bare dash is in neither.
C39_Witness ==
    /\ tokPc = "done"
    /\ tokArgs = <<<<"-", "v", "f">>, BareDash, <<"t">>>>
    /\ tokGroups = << <<<<"-", "v">>>>, <<<<"-", "f">>, <<"t">>>> >>
====
